---- MODULE Spec2Model ----
(***************************************************************************)
(* A model of the layout and pagination pipeline of genpdf                 *)
(* (src/src/elements.rs, src/src/render.rs).                               *)
(*                                                                         *)
(* Lengths (Mm, an f64 in the source) are integers here.  An Option is a   *)
(* sequence of length 0 (None) or 1 (Some).  A String is a sequence of     *)
(* one-character strings, so that replacing and measuring text is computed *)
(* and not assumed.  The inherited Style is reduced to its metrics         *)
(* (LineH, GlyphH, CharW) and, for the strings of a Paragraph, its         *)
(* underline effect; style merging lives in style.rs.                      *)
(***************************************************************************)
EXTENDS Integers, Sequences, FiniteSets, TLC

VARIABLES
    root,       \* the element that is rendered page after page
    phase,      \* "build" | "render" | "done" | "failed"
    page,       \* context.page_number of the last render call (0: none yet)
    pageSize,   \* the size of the body area of every page
    res,        \* the RenderResult (or the error) of the last render call
    log,        \* the render calls, returns and drawing operations of the last call
                \* (of a Renderer: the add_page calls made on it so far; of an
                \* Area: the add_offset and add_margins calls made on it so far)
    finished,   \* paths of the elements that returned has_more = false in an earlier call or this one
    stuck,      \* the last call returned has_more = true and left root unchanged
    calls,      \* the number of render calls so far, modulo 2
    pushed      \* the last push: "" | "Ok" | "InvalidData" (push_row), "push" | "push_list" (lists)

vars == <<root, phase, page, pageSize, res, log, finished, stuck, calls, pushed>>

----------------------------------------------------------------------------
(* Bounds of the model *)

MaxChildren == 3     \* elements pushed to a LinearLayout
MaxRows == 2         \* rows pushed to a TableLayout
MaxPage == 8         \* the page number stops counting here
MaxItems == 4        \* items and sub-lists pushed to a list

(* The metrics of the style, the line thickness and the page width *)

LineH == 3           \* metrics.line_height
GlyphH == 2          \* metrics.glyph_height
CharW == 4           \* the advance of every glyph, and of the space between two words
Thick == 1           \* LineStyle::thickness
PageW == 24          \* the width of the page body
PageHeights == {1, 2, 3, 4, 7}

----------------------------------------------------------------------------
(* Option, Margins, Size, Area *)

None == <<>>
Some(v) == <<v>>
IsSome(o) == o # <<>>
Unwrap(o) == o[1]

Max(a, b) == IF a >= b THEN a ELSE b

Trbl(t, r, b, l) == [top |-> t, right |-> r, bottom |-> b, left |-> l]

Size(w, h) == [width |-> w, height |-> h]

StackVertical(a, b) == Size(Max(a.width, b.width), a.height + b.height)

NewArea(size) == [x |-> 0, y |-> 0, w |-> size.width, h |-> size.height, margin_top |-> 0]

AddMargins(a, m) ==
    [x |-> a.x + m.left,
     y |-> a.y + m.top,
     w |-> a.w - (m.left + m.right),
     h |-> a.h - (m.top + m.bottom),
     margin_top |-> a.margin_top + m.top]

\* an offset that moves the origin and leaves the size
AddOffsetKeepsSize(a, dx, dy) == [a EXCEPT !.x = @ + dx, !.y = @ + dy]

AddOffset(a, dx, dy) ==
    [a EXCEPT !.x = @ + dx, !.y = @ + dy, !.w = @ - dx, !.h = @ - dy]

SetHeight(a, h) == [a EXCEPT !.h = h]

SetWidth(a, w) == [a EXCEPT !.w = w]

AddOptMargins(a, om) == IF IsSome(om) THEN AddMargins(a, Unwrap(om)) ELSE a

----------------------------------------------------------------------------
(* RenderResult and Result<RenderResult, Error> *)

DefaultResult ==
    [size |-> Size(0, 0), has_more |-> FALSE, offset |-> None, err |-> ""]

ErrResult(kind) == [DefaultResult EXCEPT !.err = kind]

IsErr(r) == r.err # ""

Out(el, r, ev) == [el |-> el, res |-> r, ev |-> ev]

----------------------------------------------------------------------------
(* Strings *)

RECURSIVE Decimal(_)
Digit(d) == <<"0", "1", "2", "3", "4", "5", "6", "7", "8", "9">>[d + 1]
Decimal(n) == IF n < 10 THEN <<Digit(n)>> ELSE Decimal(n \div 10) \o <<Digit(n % 10)>>

PageToken == <<"#", "{", "p", "a", "g", "e", "}">>

StartsWith(s, pat) == Len(s) >= Len(pat) /\ SubSeq(s, 1, Len(pat)) = pat

RECURSIVE Contains(_, _)
Contains(s, pat) ==
    IF Len(s) < Len(pat) THEN FALSE
    ELSE StartsWith(s, pat) \/ Contains(Tail(s), pat)

RECURSIVE Replace(_, _, _)
Replace(s, pat, by) ==
    IF s = <<>> THEN <<>>
    ELSE IF StartsWith(s, pat)
         THEN by \o Replace(SubSeq(s, Len(pat) + 1, Len(s)), pat, by)
         ELSE <<Head(s)>> \o Replace(Tail(s), pat, by)

EndsWith(s, pat) ==
    Len(s) >= Len(pat) /\ SubSeq(s, Len(s) - Len(pat) + 1, Len(s)) = pat

StrWidth(s) == CharW * Len(s)

RECURSIVE SumLen(_)
SumLen(ws) == IF ws = <<>> THEN 0 ELSE Len(Head(ws)) + SumLen(Tail(ws))

(* wrap::Words: the tokens of the runs, split at spaces *)
RECURSIVE SplitRun(_, _)
SplitRun(s, cur) ==
    IF s = <<>> THEN (IF cur = <<>> THEN <<>> ELSE <<cur>>)
    ELSE IF Head(s) = " "
         THEN (IF cur = <<>> THEN <<>> ELSE <<cur>>) \o SplitRun(Tail(s), <<>>)
         ELSE SplitRun(Tail(s), Append(cur, Head(s)))

RECURSIVE Words(_)
Words(text) == IF text = <<>> THEN <<>> ELSE SplitRun(Head(text), <<>>) \o Words(Tail(text))

(* wrap::Wrapper: packs the tokens into lines no wider than width; a token
   wider than width stops the wrapper with the overflow flag set *)
RECURSIVE WrapLines(_, _, _, _)
WrapLines(ws, width, buf, x) ==
    IF ws = <<>> THEN [lines |-> (IF buf = <<>> THEN <<>> ELSE <<buf>>), overflow |-> FALSE]
    ELSE LET tw == StrWidth(Head(ws))
             need == IF buf = <<>> THEN tw ELSE x + CharW + tw
         IN IF need <= width
            THEN WrapLines(Tail(ws), width, Append(buf, Head(ws)), need)
            ELSE IF tw > width
                 THEN [lines |-> <<>>, overflow |-> TRUE]
                 ELSE LET rest == WrapLines(Tail(ws), width, <<Head(ws)>>, tw)
                      IN [lines |-> (IF buf = <<>> THEN <<>> ELSE <<buf>>) \o rest.lines,
                          overflow |-> rest.overflow]

Wrapper(ws, width) == WrapLines(ws, width, <<>>, 0)

----------------------------------------------------------------------------
(* The log of a render call *)

ElIdx(el) ==
    CASE el.kind \in {"Linear", "Table"} -> el.render_idx
      [] el.kind = "Break" -> el.lines
      [] el.kind = "PageBreak" -> (IF el.cont THEN 1 ELSE 0)
      [] el.kind = "Paragraph" -> Len(el.words)
      [] el.kind = "Framed" -> (IF el.is_first THEN 1 ELSE 0)
      [] el.kind = "Bullet" -> (IF el.bullet_rendered THEN 1 ELSE 0)
      [] OTHER -> 0

ElCnt(el) ==
    CASE el.kind = "Linear" -> Len(el.elements)
      [] el.kind = "Table" -> Len(el.rows)
      [] el.kind = "Paragraph" -> Len(el.text)
      [] OTHER -> 0

NoEv == [op |-> "", path |-> <<>>, kind |-> "", idx |-> 0, n |-> 0,
         more |-> FALSE, err |-> "", s |-> <<>>, w |-> 0, h |-> 0]

\* render is entered on el, with an area of size (w, h); of a table the log
\* keeps the header row callback it holds
CallEv(path, el, area) ==
    [NoEv EXCEPT !.op = "call", !.path = path, !.kind = el.kind,
                 !.idx = ElIdx(el), !.n = ElCnt(el), !.w = area.w, !.h = area.h,
                 !.s = IF el.kind = "Table" THEN el.header_row_callback_fn ELSE <<>>]

\* render returns r, leaving the element as el
RetEv(path, el, r) ==
    [NoEv EXCEPT !.op = "ret", !.path = path, !.kind = el.kind,
                 !.idx = ElIdx(el), !.n = ElCnt(el), !.more = r.has_more,
                 !.err = r.err, !.w = r.size.width, !.h = r.size.height]

\* a string is printed at (x, y) of the page
TextEv(path, str, x, y) ==
    [NoEv EXCEPT !.op = "text", !.path = path, !.s = str, !.w = x, !.h = y]

\* a text section is opened on the layer, and closed
BeginEv(path) == [NoEv EXCEPT !.op = "begin_text_section", !.path = path]

EndEv(path) == [NoEv EXCEPT !.op = "end_text_section", !.path = path]

\* lines are drawn: edges names them
LineEv(op, path, edges) == [NoEv EXCEPT !.op = op, !.path = path, !.s = edges]

\* the table header callback is invoked with page number p
HeaderEv(path, p) == [NoEv EXCEPT !.op = "header_cb", !.path = path, !.idx = p]

\* get_probable_height of the table at path invokes the header callback with page number p
MeasureEv(path, p) == [NoEv EXCEPT !.op = "measure_cb", !.path = path, !.idx = p]

\* the cell decorator of the table at path is told the size of the table
SizeEv(path, num_columns, num_rows) ==
    [NoEv EXCEPT !.op = "set_table_size", !.path = path, !.idx = num_columns, !.n = num_rows]

----------------------------------------------------------------------------
(* Constructors *)

\* Text::new
NewText(str) == [kind |-> "Text", text |-> str]

\* Paragraph::new; Paragraph::set_margins
NewParagraph(str) ==
    [kind |-> "Paragraph", text |-> <<str>>, words |-> <<>>, style_applied |-> FALSE,
     alignment |-> "Left", margins |-> None, underline |-> FALSE]

\* Break::new: lines is held as a multiple of 1/LineH, so that
\* line_height * lines and height / line_height are exact
NewBreak(n) == [kind |-> "Break", lines |-> n * LineH]

\* PageBreak::new
NewPageBreak == [kind |-> "PageBreak", cont |-> FALSE]

\* PaddedElement::new
NewPadded(el, padding) == [kind |-> "Padded", element |-> el, padding |-> padding]

\* FramedElement::new
NewFramed(el) == [kind |-> "Framed", element |-> el, is_first |-> TRUE, thickness |-> Thick]

\* BulletPoint::new
NewBulletPoint(el) ==
    [kind |-> "Bullet", element |-> el, indent |-> 10, bullet_space |-> 2,
     bullet |-> <<"-">>, bullet_rendered |-> FALSE, margins |-> None]

\* LinearLayout::new
NewLinearLayout ==
    [kind |-> "Linear", elements |-> <<>>, render_idx |-> 0, margins |-> None,
     list_item_spacing |-> 0]

\* a push that puts the new element in front of the others
LinearPushFront(self, el) == [self EXCEPT !.elements = <<el>> \o @]

\* LinearLayout::push
LinearPush(self, el) == [self EXCEPT !.elements = Append(@, el)]

\* UnorderedList::new
NewUnorderedList == [kind |-> "List", layout |-> NewLinearLayout, margins |-> None]

\* UnorderedList::push
ListPush(self, el) == [self EXCEPT !.layout = LinearPush(@, NewBulletPoint(el))]

\* UnorderedList::push_list
UnorderedListPushList(self, list) ==
    LET point == NewBulletPoint(list)
    IN [self EXCEPT !.layout =
           LinearPush(@, [point EXCEPT !.indent = point.indent \div 2, !.bullet = <<>>])]

\* OrderedList::with_start
WithStart(start) ==
    [kind |-> "OList", layout |-> NewLinearLayout, number |-> start, margins |-> None,
     bullet_display |-> None, prefix |-> None]

\* OrderedList::new
NewOrderedList == WithStart(1)

\* OrderedList::set_prefix
SetPrefix(self, prefix) == [self EXCEPT !.prefix = prefix]

\* OrderedList::push_list
OrderedListPushList(self, list) ==
    [self EXCEPT !.layout = LinearPush(@, [NewBulletPoint(list) EXCEPT !.bullet = <<>>])]

\* OrderedList::push, lines 1503-1511: the bullet of the new item
ItemBullet(self) ==
    IF IsSome(self.prefix)
    THEN (IF EndsWith(Unwrap(self.prefix), <<".">>)
          THEN Unwrap(self.prefix) ELSE Unwrap(self.prefix) \o <<".">>)
         \o Decimal(self.number)
    ELSE Decimal(self.number) \o <<".">>

\* a push that leaves the counter where it was
OrderedListPushSameNumber(self, el) ==
    [self EXCEPT !.bullet_display = Some(ItemBullet(self)),
                 !.layout = LinearPush(@, [NewBulletPoint(el) EXCEPT !.bullet = ItemBullet(self)])]

\* OrderedList::push
OrderedListPush(self, el) ==
    [self EXCEPT !.bullet_display = Some(ItemBullet(self)),
                 !.layout = LinearPush(@, [NewBulletPoint(el) EXCEPT !.bullet = ItemBullet(self)]),
                 !.number = @ + 1]

\* UOList::push
UOListPush(self, el) ==
    IF self.kind = "OList" THEN OrderedListPush(self, el) ELSE ListPush(self, el)

\* UOList::push_list
UOListPushList(self, target_list) ==
    IF target_list.kind = "List"
    THEN (IF self.kind = "OList"
          THEN OrderedListPushList(self, target_list)
          ELSE UnorderedListPushList(self, target_list))
    ELSE (IF self.kind = "OList"
          THEN OrderedListPushList(self,
                   IF IsSome(self.bullet_display)
                   THEN SetPrefix(target_list, self.bullet_display) ELSE target_list)
          ELSE UnorderedListPushList(self, target_list))

\* FrameCellDecorator::new
NewFrameCellDecorator(inner, outer) ==
    [inner |-> inner, outer |-> outer, thickness |-> Thick,
     num_columns |-> 0, num_rows |-> 0, last_row |-> None]

\* TableLayout::new_with_borders; column_weights are ColumnWidths::Weights
NewTableLayout(weights, inner, outer) ==
    [kind |-> "Table", column_weights |-> weights, rows |-> <<>>, render_idx |-> 0,
     cell_decorator |-> Some(NewFrameCellDecorator(inner, outer)),
     header_row_callback_fn |-> None,
     draw_inner_borders |-> inner, draw_outer_borders |-> outer,
     has_header_row_callback |-> FALSE, margins |-> None]

\* TableCell::new / TableLayoutRow::cell
NewCell(el) == [element |-> el, background_color |-> None]

\* a push_row that also takes a row with fewer cells than the table has columns
PushRowAtMost(self, cells, row_height) ==
    IF Len(cells) <= Len(self.column_weights)
    THEN [t |-> [self EXCEPT !.rows = Append(@, [cells |-> cells, row_height |-> row_height])],
          r |-> "Ok"]
    ELSE [t |-> self, r |-> "InvalidData"]

\* TableLayout::push_row
PushRow(self, cells, row_height) ==
    IF Len(cells) = Len(self.column_weights)
    THEN [t |-> [self EXCEPT !.rows = Append(@, [cells |-> cells, row_height |-> row_height])],
          r |-> "Ok"]
    ELSE [t |-> self, r |-> "InvalidData"]

----------------------------------------------------------------------------
(* Area::text_section / TextSection::new: a section opens iff the glyph
   height fits in what is left of the area below the position *)

\* a section that opens only where a whole line fits
TextSectionFitsLine(area, x, y) == ~(LineH > AddOffset(area, x, y).h)

TextSectionFits(area, x, y) == ~(GlyphH > AddOffset(area, x, y).h)

\* Area::print_str where the section fits: the section is opened, the string
\* is written at (x, y) of the page, the section is dropped
PrintStr(path, str, x, y) == <<BeginEv(path), TextEv(path, str, x, y), EndEv(path)>>

----------------------------------------------------------------------------
(* Text *)

TextRender(self, area, path) ==
    IF TextSectionFits(area, 0, 0)
    THEN Out(self,
             [DefaultResult EXCEPT !.size = Size(StrWidth(self.text), LineH)],
             PrintStr(path, self.text, area.x, area.y))
    ELSE Out(self, [DefaultResult EXCEPT !.has_more = TRUE], <<>>)

----------------------------------------------------------------------------
(* Paragraph *)

\* a get_offset that pushes a centred line to the right edge
GetOffsetFlushRight(self, width, max_width) ==
    IF self.alignment = "Left" THEN 0 ELSE max_width - width

\* Paragraph::get_offset
GetOffset(self, width, max_width) ==
    CASE self.alignment = "Left" -> 0
      [] self.alignment = "Center" -> (max_width - width) \div 2
      [] self.alignment = "Right" -> max_width - width

\* Paragraph::apply_style
ApplyStyle(self) == [self EXCEPT !.style_applied = TRUE]

RECURSIVE ReplacePageNumber(_, _)
ReplacePageNumber(words, ctx) ==
    IF words = <<>> THEN <<>>
    ELSE LET s0 == Replace(Head(words), <<"\n">>, <<>>)
             s1 == IF Contains(s0, PageToken)
                   THEN Replace(s0, PageToken, Decimal(ctx.page_number))
                   ELSE s0
         IN <<s1>> \o ReplacePageNumber(Tail(words), ctx)

\* Paragraph::render, lines 474-480: the queue is filled when it is empty
FillWords(self, ctx) ==
    IF self.words = <<>>
    THEN [self EXCEPT !.words = ReplacePageNumber(Words(self.text), ctx), !.text = <<>>]
    ELSE self

RECURSIVE LineWidth(_)
LineWidth(line) == IF line = <<>> THEN 0 ELSE StrWidth(Head(line)) + LineWidth(Tail(line))

RECURSIVE PrintLine(_, _, _, _, _, _)
PrintLine(line, path, x, y, line_width, underline) ==
    IF line = <<>> THEN <<>>
    ELSE <<TextEv(path, Head(line), x + line_width, y)>>
         \o (IF underline THEN <<LineEv("underline", path, <<"bottom">>)>> ELSE <<>>)
         \o PrintLine(Tail(line), path, x, y, line_width + StrWidth(Head(line)), underline)

\* Paragraph::render, lines 489-534: the loop over the wrapped lines
RECURSIVE DrawLines(_, _, _, _, _, _)
DrawLines(self, lines, area, path, size, rendered_len) ==
    IF lines = <<>>
    THEN [size |-> size, rendered_len |-> rendered_len, has_more |-> FALSE, ev |-> <<>>]
    ELSE LET line == Head(lines)
             width == LineWidth(line)
             x == GetOffset(self, width, area.w)
         IN IF TextSectionFits(area, x, 0)
            THEN LET rest == DrawLines(self, Tail(lines), AddOffset(area, 0, LineH), path,
                                       StackVertical(size, Size(width, LineH)),
                                       rendered_len + SumLen(line))
                 IN [rest EXCEPT !.ev = <<BeginEv(path)>>
                                        \o PrintLine(line, path, area.x + x, area.y, 0,
                                                      self.underline)
                                        \o <<EndEv(path)>> \o @]
            ELSE [size |-> size, rendered_len |-> rendered_len, has_more |-> TRUE, ev |-> <<>>]

\* a trimming that leaves the queue as it is
TrimWordsKeepsAll(words, rendered_len) == words

\* Paragraph::render, lines 549-559: the rendered words leave the queue
RECURSIVE TrimWords(_, _)
TrimWords(words, rendered_len) ==
    IF rendered_len > 0 /\ words # <<>>
    THEN IF Len(Head(words)) <= rendered_len
         THEN TrimWords(Tail(words), rendered_len - Len(Head(words)))
         ELSE <<SubSeq(Head(words), rendered_len + 1, Len(Head(words)))>> \o Tail(words)
    ELSE words

\* a render that takes the rendered words off the queue before it reports the overflow
ParagraphFinishTrimsFirst(self, overflow, d) ==
    IF overflow /\ ~d.has_more
    THEN Out([self EXCEPT !.words = TrimWords(@, d.rendered_len)],
             ErrResult("PageSizeExceeded"), d.ev)
    ELSE Out([self EXCEPT !.words = TrimWords(@, d.rendered_len)],
             [DefaultResult EXCEPT !.size = d.size, !.has_more = d.has_more], d.ev)

\* Paragraph::render, lines 536-565: the error, the queue and the result.  The
\* wrapper is an iterator: it reports the overflow when the loop over the
\* lines has reached the token, not when the loop has left at a full area
ParagraphFinish(self, overflow, d) ==
    LET m == IF IsSome(self.margins) THEN Unwrap(self.margins) ELSE Trbl(0, 0, 0, 0)
    IN IF overflow /\ ~d.has_more
       THEN Out(self, ErrResult("PageSizeExceeded"), d.ev)
       ELSE Out([self EXCEPT !.words = TrimWords(@, d.rendered_len)],
                [DefaultResult EXCEPT
                    !.size = Size(d.size.width + m.left + m.right,
                                  d.size.height + m.top + m.bottom),
                    !.has_more = d.has_more],
                d.ev)

\* Paragraph::render, lines 489-534: the wrapped lines are drawn
ParagraphWrapped(self, area, path, wr) ==
    ParagraphFinish(self, wr.overflow, DrawLines(self, wr.lines, area, path, Size(0, 0), 0))

\* Paragraph::render, lines 482-488: the margins and the wrapper
ParagraphFilled(self, area0, path) ==
    ParagraphWrapped(self, AddOptMargins(area0, self.margins), path,
                     Wrapper(self.words, AddOptMargins(area0, self.margins).w))

ParagraphRender(self0, area0, ctx, path) ==
    IF self0.words = <<>> /\ self0.text = <<>>
    THEN Out(ApplyStyle(self0), DefaultResult, <<>>)
    ELSE ParagraphFilled(FillWords(ApplyStyle(self0), ctx), area0, path)

\* Paragraph::get_probable_height
ParagraphProbableHeight(self0, area, ctx) ==
    LET self1 == ApplyStyle(self0)
        wr == Wrapper(ReplacePageNumber(Words(self1.text), ctx), area.w)
        m == IF IsSome(self1.margins) THEN Unwrap(self1.margins) ELSE Trbl(0, 0, 0, 0)
    IN [el |-> self1, h |-> Len(wr.lines) * LineH + m.top + m.bottom]

----------------------------------------------------------------------------
(* Break *)

BreakHeight(line_height, lines) == (line_height * lines) \div LineH

BreakRender(self, area) ==
    IF self.lines <= 0
    THEN Out(self, DefaultResult, <<>>)
    ELSE LET line_height == LineH
             break_height == BreakHeight(line_height, self.lines)
         IN IF break_height < area.h
            THEN Out([self EXCEPT !.lines = 0],
                     [DefaultResult EXCEPT !.size.height = break_height], <<>>)
            ELSE Out([self EXCEPT !.lines = @ - (area.h * LineH) \div line_height],
                     [DefaultResult EXCEPT !.size.height = area.h], <<>>)

BreakProbableHeight(self, area) ==
    LET break_height == BreakHeight(LineH, self.lines)
    IN IF break_height < area.h THEN break_height ELSE area.h

----------------------------------------------------------------------------
(* PageBreak *)

\* a page break that is over with its first call
PageBreakRenderOnce(self) == Out([self EXCEPT !.cont = TRUE], DefaultResult, <<>>)

\* PageBreak::render
PageBreakRender(self) ==
    IF self.cont
    THEN Out(self, DefaultResult, <<>>)
    ELSE Out([self EXCEPT !.cont = TRUE],
             [DefaultResult EXCEPT !.size = Size(1, 0), !.has_more = TRUE], <<>>)

----------------------------------------------------------------------------
(* Element::render and Element::get_probable_height, by kind *)

RECURSIVE Render(_, _, _, _)
RECURSIVE GetProbableHeight(_, _, _)
RECURSIVE MeasureCalls(_, _, _)
RECURSIVE RenderVerticalLoop(_, _, _, _, _, _)
RECURSIVE LinearProbableHeight(_, _, _, _)
RECURSIVE TableRowsLoop(_, _, _, _, _, _)

----------------------------------------------------------------------------
(* LinearLayout *)

\* a render_vertical that moves the cursor on whatever the child returned
AfterChildAdvances(self, area, result, r) ==
    [self |-> [self EXCEPT !.render_idx = @ + 1],
     area |-> AddOffset(area, 0, r.size.height + self.list_item_spacing),
     result |-> [result EXCEPT !.size = StackVertical(@, r.size), !.has_more = r.has_more],
     return |-> r.has_more]

\* LinearLayout::render_vertical, lines 165-177: what follows a child's render
AfterChild(self, area, result, r) ==
    LET left_offset == IF IsSome(r.offset) THEN Unwrap(r.offset) ELSE 0
        right_offset == r.size.height + self.list_item_spacing
        stacked == StackVertical(result.size, r.size)
        result1 == [result EXCEPT
                       !.size = Size(stacked.width, stacked.height + self.list_item_spacing)]
    IN IF r.has_more
       THEN [self |-> self, area |-> AddOffset(area, left_offset, right_offset),
             result |-> [result1 EXCEPT !.has_more = TRUE], return |-> TRUE]
       ELSE [self |-> [self EXCEPT !.render_idx = @ + 1],
             area |-> AddOffset(area, left_offset, right_offset),
             result |-> result1, return |-> FALSE]

\* a render_vertical that reports completion whenever its loop ends
LinearFinishDone(self, result) ==
    LET m == IF IsSome(self.margins) THEN Unwrap(self.margins) ELSE Trbl(0, 0, 0, 0)
    IN [result EXCEPT !.has_more = FALSE, !.size.height = @ + m.top + m.bottom]

\* LinearLayout::render_vertical, lines 179-183: the loop has ended
LinearFinish(self, result) ==
    LET m == IF IsSome(self.margins) THEN Unwrap(self.margins) ELSE Trbl(0, 0, 0, 0)
    IN [result EXCEPT !.has_more = self.render_idx < Len(self.elements),
                      !.size.height = @ + m.top + m.bottom]

\* LinearLayout::render_vertical, lines 172-177: return, or go on with the next child
ChildStacked(a, ev, ctx, path) ==
    IF a.return
    THEN Out(a.self, a.result, ev)
    ELSE RenderVerticalLoop(a.self, a.area, a.result, ev, ctx, path)

\* a render_vertical that takes the error of a child for a completed child
ChildRenderedGoesOn(self, area, result, ev, ctx, path, o) ==
    ChildStacked(AfterChild([self EXCEPT !.elements[self.render_idx + 1] = o.el],
                            area, result, [o.res EXCEPT !.err = ""]),
                 ev \o o.ev, ctx, path)

\* LinearLayout::render_vertical, line 165: the child has returned o
ChildRendered(self, area, result, ev, ctx, path, o) ==
    IF IsErr(o.res)
    THEN Out([self EXCEPT !.elements[self.render_idx + 1] = o.el],
             ErrResult(o.res.err), ev \o o.ev)
    ELSE ChildStacked(AfterChild([self EXCEPT !.elements[self.render_idx + 1] = o.el],
                                 area, result, o.res),
                      ev \o o.ev, ctx, path)

RenderVerticalLoop(self, area, result, ev, ctx, path) ==
    IF area.h > 0 /\ self.render_idx < Len(self.elements)
    THEN ChildRendered(self, area, result, ev, ctx, path,
                       Render(self.elements[self.render_idx + 1], area, ctx,
                              Append(path, self.render_idx + 1)))
    ELSE Out(self, LinearFinish(self, result), ev)

LinearRender(self, area, ctx, path) ==
    RenderVerticalLoop(self, AddOptMargins(area, self.margins), DefaultResult, <<>>, ctx, path)

\* LinearLayout::get_probable_height: the sum over all the elements
LinearProbableHeight(self, i, area, ctx) ==
    IF i > Len(self.elements)
    THEN [el |-> self,
          h |-> IF IsSome(self.margins)
                THEN Unwrap(self.margins).top + Unwrap(self.margins).bottom ELSE 0]
    ELSE LET m == GetProbableHeight(self.elements[i], area, ctx)
             rest == LinearProbableHeight([self EXCEPT !.elements[i] = m.el], i + 1, area, ctx)
         IN [el |-> rest.el, h |-> m.h + rest.h]

----------------------------------------------------------------------------
(* PaddedElement, FramedElement, BulletPoint, UnorderedList / OrderedList *)

\* an area that gives up the bottom padding as well
PaddedAreaAllSides(self, area) == AddMargins(area, self.padding)

PaddedArea(self, area) == AddMargins(area, [self.padding EXCEPT !.bottom = 0])

PaddedRender(self, area, ctx, path) ==
    LET o == Render(self.element, PaddedArea(self, area), ctx, Append(path, 1))
        self1 == [self EXCEPT !.element = o.el]
    IN IF IsErr(o.res) THEN Out(self1, o.res, o.ev)
       ELSE Out(self1,
                [o.res EXCEPT !.size = Size(@.width + self.padding.left + self.padding.right,
                                            @.height + self.padding.top + self.padding.bottom)],
                o.ev)

\* FramedElement::render, lines 1107-1119: the area of the wrapped element
FramedElementArea(self, area) ==
    LET a == AddMargins(area, Trbl(0, self.thickness, self.thickness, self.thickness))
    IN IF self.is_first THEN AddMargins(a, Trbl(self.thickness, 0, 0, 0)) ELSE a

\* a frame that is drawn closed, with its four edges, in every call
FramedFinishClosed(self, area, r, path) ==
    Out([self EXCEPT !.is_first = FALSE],
        [r EXCEPT !.size = Size(area.w, @.height + 2 * self.thickness)],
        <<LineEv("frame", path, <<"right", "top", "left">>),
          LineEv("frame", path, <<"left", "bottom", "right">>)>>)

\* FramedElement::render, lines 1137-1155: the frame and the flag
FramedFinish(self, area, r, path) ==
    LET r1 == [r EXCEPT !.size.width = area.w]
        r2 == IF self.is_first THEN [r1 EXCEPT !.size.height = @ + self.thickness] ELSE r1
        r3 == IF ~r.has_more THEN [r2 EXCEPT !.size.height = @ + self.thickness] ELSE r2
        ev == (IF self.is_first
               THEN <<LineEv("frame", path, <<"right", "top", "left">>)>> ELSE <<>>)
              \o (IF ~r.has_more
                  THEN <<LineEv("frame", path, <<"left", "bottom", "right">>)>>
                  ELSE <<LineEv("frame", path, <<"left">>), LineEv("frame", path, <<"right">>)>>)
    IN Out([self EXCEPT !.is_first = FALSE], r3, ev)

FramedRender(self, area, ctx, path) ==
    LET o == Render(self.element, FramedElementArea(self, area), ctx, Append(path, 1))
        self1 == [self EXCEPT !.element = o.el]
    IN IF IsErr(o.res) THEN Out(self1, o.res, o.ev)
       ELSE LET f == FramedFinish(self1, area, o.res, path)
            IN Out(f.el, f.res, o.ev \o f.ev)

\* a bullet point that prints its bullet in every call
BulletFinishEveryCall(self, area, r, path) ==
    LET m == IF IsSome(self.margins) THEN Unwrap(self.margins) ELSE Trbl(0, 0, 0, 0)
        x == self.indent - StrWidth(self.bullet) - self.bullet_space
    IN Out([self EXCEPT !.bullet_rendered = TRUE],
           [r EXCEPT !.size = Size(@.width + self.indent, @.height + m.top + m.bottom)],
           IF TextSectionFits(area, x, 0)
           THEN PrintStr(path, self.bullet, area.x + x, area.y) ELSE <<>>)

\* BulletPoint::render, lines 1689-1725: the bullet and the flag
BulletFinish(self, area, r, path) ==
    LET m == IF IsSome(self.margins) THEN Unwrap(self.margins) ELSE Trbl(0, 0, 0, 0)
        r1 == [r EXCEPT !.size.width = @ + self.indent]
        x == self.indent - StrWidth(self.bullet) - self.bullet_space
        ev == IF ~self.bullet_rendered /\ TextSectionFits(area, x, 0)
              THEN PrintStr(path, self.bullet, area.x + x, area.y) ELSE <<>>
    IN Out([self EXCEPT !.bullet_rendered = TRUE],
           [r1 EXCEPT !.size.height = @ + m.top + m.bottom], ev)

BulletRender(self, area0, ctx, path) ==
    LET area == AddOptMargins(area0, self.margins)
        o == Render(self.element, AddOffset(area, self.indent, 0), ctx, Append(path, 1))
        self1 == [self EXCEPT !.element = o.el]
    IN IF IsErr(o.res) THEN Out(self1, o.res, o.ev)
       ELSE LET f == BulletFinish(self1, area, o.res, path)
            IN Out(f.el, f.res, o.ev \o f.ev)

ListRender(self, area, ctx, path) ==
    LET m == IF IsSome(self.margins) THEN Unwrap(self.margins) ELSE Trbl(0, 0, 0, 0)
        o == Render(self.layout, AddOptMargins(area, self.margins), ctx, Append(path, 1))
        self1 == [self EXCEPT !.layout = o.el]
    IN IF IsErr(o.res) THEN Out(self1, o.res, o.ev)
       ELSE Out(self1,
                [o.res EXCEPT !.size = Size(@.width + m.left + m.right,
                                            @.height + m.top + m.bottom)],
                o.ev)

\* OrderedList::render
OrderedListRender(self, area, ctx, path) == ListRender(self, area, ctx, path)

----------------------------------------------------------------------------
(* Area::split_horizontally, for ColumnWidths::Weights *)

RECURSIVE SumSeq(_)
SumSeq(q) == IF q = <<>> THEN 0 ELSE Head(q) + SumSeq(Tail(q))

\* a split that starts every sub-area at the origin of the area
RECURSIVE SplitFromOrigin(_, _, _, _)
SplitFromOrigin(area, weights, total, offset) ==
    IF weights = <<>> THEN <<>>
    ELSE <<[area EXCEPT !.w = (area.w * Head(weights)) \div total]>>
         \o SplitFromOrigin(area, Tail(weights), total, offset)

\* Area::split_horizontally_by_weights: the widths here are such that
\* width / total_weight is exact
RECURSIVE SplitFrom(_, _, _, _)
SplitFrom(area, weights, total, offset) ==
    IF weights = <<>> THEN <<>>
    ELSE LET width == (area.w * Head(weights)) \div total
         IN <<[area EXCEPT !.x = @ + offset, !.w = width]>>
            \o SplitFrom(area, Tail(weights), total, offset + width)

SplitHorizontally(area, weights) == SplitFrom(area, weights, SumSeq(weights), 0)

----------------------------------------------------------------------------
(* Area::split_horizontally: ColumnWidths is Weights or PixelWidths *)

Weights(weights) == [kind |-> "Weights", v |-> weights]

PixelWidths(widths) == [kind |-> "PixelWidths", v |-> widths]

\* Area::split_horizontally_by_pixels
RECURSIVE SplitByPixels(_, _, _)
SplitByPixels(area, widths, offset) ==
    IF widths = <<>> THEN <<>>
    ELSE <<[area EXCEPT !.x = @ + offset, !.w = Head(widths)]>>
         \o SplitByPixels(area, Tail(widths), offset + Head(widths))

\* Area::split_horizontally
SplitColumns(area, columns) ==
    IF columns.kind = "Weights"
    THEN SplitHorizontally(area, columns.v)
    ELSE SplitByPixels(area, columns.v, 0)

----------------------------------------------------------------------------
(* FrameCellDecorator *)

PrintLeft(dec, column) == IF column = 0 THEN dec.outer ELSE dec.inner

\* a print_right that closes every cell of a table with outer borders
PrintRightEveryCell(dec, column) == dec.outer

PrintRight(dec, column) == IF column + 1 = dec.num_columns THEN dec.outer ELSE FALSE

PrintTop(dec, row, has_more) ==
    IF has_more THEN dec.outer
    ELSE IF (IF IsSome(dec.last_row) THEN row > Unwrap(dec.last_row) ELSE TRUE)
         THEN (IF row = 0 THEN dec.outer ELSE dec.inner)
         ELSE TRUE

PrintBottom(dec, row, has_more) ==
    IF has_more THEN TRUE
    ELSE IF row + 1 = dec.num_rows THEN dec.outer ELSE FALSE

SetTableSize(dec, num_columns, num_rows) ==
    [dec EXCEPT !.num_columns = num_columns, !.num_rows = num_rows]

PrepareCell(dec, column, row, area) ==
    LET margin == dec.thickness
        area1 == IF PrintRight(dec, column) THEN area ELSE SetWidth(area, area.w + margin)
    IN AddMargins(area1,
                  Trbl(IF PrintTop(dec, row, FALSE) THEN margin ELSE 0,
                       IF PrintRight(dec, column) THEN margin ELSE 0,
                       IF PrintBottom(dec, row, FALSE) THEN margin ELSE 0,
                       IF PrintLeft(dec, column) THEN margin ELSE 0))

\* the edges decorate_cell draws, in drawing order
DecorateEdges(dec, column, row, has_more) ==
    (IF PrintTop(dec, row, has_more) THEN <<"top">> ELSE <<>>)
    \o (IF PrintRight(dec, column) THEN <<"right">> ELSE <<>>)
    \o (IF PrintBottom(dec, row, has_more) THEN <<"bottom">> ELSE <<>>)
    \o (IF PrintLeft(dec, column) THEN <<"left">> ELSE <<>>)

DecorateCell(dec, column, row, has_more, row_height, bg_color, path) ==
    [dec |-> IF column + 1 = dec.num_columns THEN [dec EXCEPT !.last_row = Some(row)] ELSE dec,
     h |-> row_height
           + (IF PrintTop(dec, row, has_more) THEN dec.thickness ELSE 0)
           + (IF PrintBottom(dec, row, has_more) THEN dec.thickness ELSE 0),
     ev |-> (IF IsSome(bg_color)
             THEN <<LineEv("fill", path \o <<row + 1, column + 1>>, <<>>)>> ELSE <<>>)
            \o <<LineEv("decorate", path \o <<row + 1, column + 1>>,
                        DecorateEdges(dec, column, row, has_more))>>]

----------------------------------------------------------------------------
(* TableLayout *)

\* the element a header row callback returns for a page
HeaderCallback(cb, page_number) ==
    CASE cb = "para" -> [err |-> "", el |-> NewParagraph(<<"h">>)]
      [] cb = "table" ->
            [err |-> "",
             el |-> PushRow(NewTableLayout(<<1, 1>>, TRUE, TRUE),
                            <<NewCell([NewParagraph(<<"h">>) EXCEPT
                                          !.margins = Some(Trbl(1, 1, 1, 1))]),
                              NewCell([NewParagraph(<<"i">>) EXCEPT
                                          !.margins = Some(Trbl(1, 1, 1, 1))])>>,
                            None).t]
      [] OTHER -> [err |-> "Internal", el |-> NewPageBreak]

\* TableLayout::render_row, lines 2365-2376
RECURSIVE MeasureCells(_, _, _, _)
MeasureCells(cells, areas, i, ctx) ==
    IF i > Len(cells) \/ i > Len(areas) THEN [cells |-> cells, h |-> 0]
    ELSE LET m == GetProbableHeight(cells[i].element, areas[i], ctx)
             rest == MeasureCells([cells EXCEPT ![i].element = m.el], areas, i + 1, ctx)
         IN [cells |-> rest.cells, h |-> Max(m.h, rest.h)]

\* TableLayout::render_row, lines 2387-2400
RECURSIVE DecorateCells(_, _, _, _, _, _, _)
DecorateCells(dec, cells, n, i, row, row_height, path) ==
    IF i > n THEN [dec |-> dec, h |-> 0, ev |-> <<>>]
    ELSE LET d == DecorateCell(dec, i - 1, row, TRUE, row_height,
                               cells[i].background_color, path)
             rest == DecorateCells(d.dec, cells, n, i + 1, row, row_height, path)
         IN [dec |-> rest.dec, h |-> Max(d.h, rest.h), ev |-> d.ev \o rest.ev]

\* TableLayout::render_row, lines 2402-2410
RECURSIVE RenderCells(_, _, _, _, _)
RenderCells(cells, areas, i, ctx, path) ==
    IF i > Len(cells) \/ i > Len(areas)
    THEN [cells |-> cells, has_more |-> FALSE, h |-> 0, err |-> "", ev |-> <<>>]
    ELSE LET o == Render(cells[i].element, areas[i], ctx, Append(path, i))
             cells1 == [cells EXCEPT ![i].element = o.el]
         IN IF IsErr(o.res)
            THEN [cells |-> cells1, has_more |-> FALSE, h |-> 0, err |-> o.res.err, ev |-> o.ev]
            ELSE LET rest == RenderCells(cells1, areas, i + 1, ctx, path)
                 IN [cells |-> rest.cells,
                     has_more |-> o.res.has_more \/ rest.has_more,
                     h |-> Max(o.res.size.height, rest.h),
                     err |-> rest.err,
                     ev |-> o.ev \o rest.ev]

RECURSIVE PrepareCells(_, _, _, _)
PrepareCells(dec, areas, i, row) ==
    IF i > Len(areas) THEN <<>>
    ELSE <<PrepareCell(dec, i - 1, row, areas[i])>> \o PrepareCells(dec, areas, i + 1, row)

\* the row's height against its explicit minimum, lines 2377-2381 and 2412-2416
WithRowHeight(row, h) ==
    IF IsSome(row.row_height) /\ Unwrap(row.row_height) > h THEN Unwrap(row.row_height) ELSE h

\* render_row returns r for row row, having computed row_probable_height
RowEv(path, row, r, row_probable_height) ==
    [NoEv EXCEPT !.op = "row", !.path = path, !.idx = row, !.more = r.has_more,
                 !.err = r.err, !.h = r.size.height, !.n = row_probable_height]

\* TableLayout::render_row, lines 2412-2417: the row's result
RowDrawn(self, path, row_probable_height, d, c) ==
    LET row == self.render_idx
        self2 == IF IsSome(self.cell_decorator)
                 THEN [self EXCEPT !.cell_decorator = Some(d.dec)] ELSE self
        self3 == [self2 EXCEPT !.rows[row + 1].cells = c.cells]
        r == IF c.err # "" THEN ErrResult(c.err)
             ELSE [DefaultResult EXCEPT
                      !.has_more = c.has_more,
                      !.size.height = WithRowHeight(self.rows[row + 1], c.h)]
    IN Out(self3, r, d.ev \o c.ev \o <<RowEv(path, row, r, row_probable_height)>>)

\* TableLayout::render_row, lines 2377-2410: the cells have been measured
RowMeasured(self, area, ctx, path, cell_areas, m) ==
    LET row == self.render_idx
        self1 == [self EXCEPT !.rows[row + 1].cells = m.cells]
        row_probable_height == WithRowHeight(self.rows[row + 1], m.h)
        r == [DefaultResult EXCEPT !.has_more = TRUE]
    IN IF row_probable_height > area.h
       THEN Out(self1, r, <<RowEv(path, row, r, row_probable_height)>>)
       ELSE RowDrawn(self1, path, row_probable_height,
                     IF IsSome(self1.cell_decorator)
                     THEN DecorateCells(Unwrap(self1.cell_decorator), m.cells,
                                        Len(cell_areas), 1, row, row_probable_height, path)
                     ELSE [dec |-> <<>>, h |-> 0, ev |-> <<>>],
                     RenderCells(m.cells, cell_areas, 1, ctx, Append(path, row + 1)))

\* the header callbacks that measuring the cells of a row invokes
RECURSIVE CellsMeasureCalls(_, _, _, _, _)
CellsMeasureCalls(cells, n, i, ctx, path) ==
    IF i > Len(cells) \/ i > n THEN <<>>
    ELSE MeasureCalls(cells[i].element, ctx, Append(path, i))
         \o CellsMeasureCalls(cells, n, i + 1, ctx, path)

\* what measuring the cells has logged comes before what the row does next
RowAfterMeasure(ev, o) == Out(o.el, o.res, ev \o o.ev)

\* TableLayout::render_row, lines 2365-2376
RowPrepared(self, area, ctx, path, cell_areas) ==
    RowAfterMeasure(
        CellsMeasureCalls(self.rows[self.render_idx + 1].cells, Len(cell_areas), 1, ctx,
                          Append(path, self.render_idx + 1)),
        RowMeasured(self, area, ctx, path, cell_areas,
                    MeasureCells(self.rows[self.render_idx + 1].cells, cell_areas, 1, ctx)))

\* TableLayout::render_row, lines 2353-2364: the areas of the cells
RowAreas(self, area) ==
    IF IsSome(self.cell_decorator)
    THEN PrepareCells(Unwrap(self.cell_decorator),
                      SplitHorizontally(area, self.column_weights), 1, self.render_idx)
    ELSE SplitHorizontally(area, self.column_weights)

RenderRow(self, area, ctx, path) == RowPrepared(self, area, ctx, path, RowAreas(self, area))

\* TableLayout::render, lines 2477-2484: the row has returned o
RowRendered(area, result, ev, ctx, path, o) ==
    IF IsErr(o.res) THEN Out(o.el, o.res, ev \o o.ev)
    ELSE IF o.res.has_more
         THEN Out(o.el, [result EXCEPT !.size.height = @ + o.res.size.height,
                                       !.has_more = TRUE], ev \o o.ev)
         ELSE TableRowsLoop([o.el EXCEPT !.render_idx = @ + 1],
                            AddOffset(area, 0, o.res.size.height),
                            [result EXCEPT !.size.height = @ + o.res.size.height],
                            ev \o o.ev, ctx, path)

\* TableLayout::render, lines 2476-2486
TableRowsLoop(self, area, result, ev, ctx, path) ==
    IF self.render_idx < Len(self.rows)
    THEN RowRendered(area, result, ev, ctx, path, RenderRow(self, area, ctx, path))
    ELSE Out(self, [result EXCEPT !.has_more = self.render_idx < Len(self.rows)], ev)

\* TableLayout::render, lines 2462-2473: the header element has returned o
HeaderRendered(area, result, called, o) ==
    IF IsErr(o.res)
    THEN [stop |-> TRUE, area |-> area, result |-> o.res, ev |-> called \o o.ev]
    ELSE [stop |-> FALSE,
          area |-> AddOffset(area, 0, o.res.size.height),
          result |-> [result EXCEPT !.size.height = @ + o.res.size.height],
          ev |-> called \o o.ev]

\* TableLayout::render, lines 2452-2461: the header element has been measured
HeaderMeasured(area, result, ctx, path, called, m) ==
    IF m.h > area.h
    THEN [stop |-> TRUE, area |-> area,
          result |-> [result EXCEPT !.has_more = TRUE], ev |-> called]
    ELSE HeaderRendered(area, result, called, Render(m.el, area, ctx, Append(path, 0)))

\* TableLayout::render, lines 2450-2451: the callback has returned cb
HeaderCalled(area, result, ctx, path, called, cb) ==
    IF cb.err # ""
    THEN [stop |-> TRUE, area |-> area, result |-> ErrResult(cb.err), ev |-> called]
    ELSE HeaderMeasured(area, result, ctx, path,
                        called \o MeasureCalls(cb.el, ctx, Append(path, 0)),
                        GetProbableHeight(cb.el, area, ctx))

\* TableLayout::render, lines 2449-2474: the header row of the page
TableHeader(self, area, result, ctx, path) ==
    IF IsSome(self.header_row_callback_fn)
    THEN HeaderCalled(area, result, ctx, path, <<HeaderEv(path, ctx.page_number)>>,
                      HeaderCallback(Unwrap(self.header_row_callback_fn), ctx.page_number))
    ELSE [stop |-> FALSE, area |-> area, result |-> result, ev |-> <<>>]

\* TableLayout::render, lines 2475-2486: the rows follow the header
TableRows(self, hd, ctx, path) ==
    IF hd.stop THEN Out(self, hd.result, hd.ev)
    ELSE TableRowsLoop(self, hd.area, hd.result, hd.ev, ctx, path)

\* a render that goes to the rows without the header row
TableStartNoHeader(self, area, mg, ctx, path) ==
    TableRowsLoop(self, area, [DefaultResult EXCEPT !.size = Size(area.w, mg.top + mg.bottom)],
                  <<>>, ctx, path)

\* TableLayout::render, lines 2436-2448: the margins, the table size, the result
TableStart(self, area, mg, ctx, path) ==
    TableRows(self,
              TableHeader(self, area,
                          [DefaultResult EXCEPT !.size = Size(area.w, mg.top + mg.bottom)],
                          ctx, path),
              ctx, path)

\* TableLayout::render, lines 2444-2446: set_table_size comes before all the rest
TableSized(self0, path, o) ==
    Out(o.el, o.res,
        (IF IsSome(self0.cell_decorator)
         THEN <<SizeEv(path, Len(self0.column_weights), Len(self0.rows))>> ELSE <<>>) \o o.ev)

TableRender(self0, area0, ctx, path) ==
    IF Len(self0.column_weights) = 0
    THEN Out(self0, DefaultResult, <<>>)
    ELSE TableSized(self0, path,
            TableStart(IF IsSome(self0.cell_decorator)
                       THEN [self0 EXCEPT !.cell_decorator =
                                Some(SetTableSize(Unwrap(@), Len(self0.column_weights),
                                                  Len(self0.rows)))]
                       ELSE self0,
                       AddOptMargins(area0, self0.margins),
                       IF IsSome(self0.margins) THEN Unwrap(self0.margins) ELSE Trbl(0, 0, 0, 0),
                       ctx, path))

\* TableLayout::get_probable_height, lines 2495-2506: the rows
RECURSIVE TableCellsHeight(_, _, _, _)
TableCellsHeight(cells, i, area, ctx) ==
    IF i > Len(cells) THEN [cells |-> cells, h |-> 0]
    ELSE LET m == GetProbableHeight(cells[i].element, area, ctx)
             rest == TableCellsHeight([cells EXCEPT ![i].element = m.el], i + 1, area, ctx)
         IN [cells |-> rest.cells, h |-> Max(m.h, rest.h)]

RECURSIVE TableRowsHeight(_, _, _, _)
TableRowsHeight(self, i, area, ctx) ==
    IF i > Len(self.rows) THEN [el |-> self, h |-> 0]
    ELSE LET m == TableCellsHeight(self.rows[i].cells, 1, area, ctx)
             rest == TableRowsHeight([self EXCEPT !.rows[i].cells = m.cells], i + 1, area, ctx)
         IN [el |-> rest.el, h |-> m.h + rest.h]

TableProbableHeight(self, area, ctx) ==
    LET rows == TableRowsHeight(self, 1, area, ctx)
        mg == IF IsSome(self.margins) THEN Unwrap(self.margins) ELSE Trbl(0, 0, 0, 0)
    IN IF IsSome(self.header_row_callback_fn)
       THEN LET cb == HeaderCallback(Unwrap(self.header_row_callback_fn), ctx.page_number)
            IN IF cb.err # "" THEN [el |-> rows.el, h |-> 0]
               ELSE [el |-> rows.el,
                     h |-> rows.h + GetProbableHeight(cb.el, area, ctx).h + mg.top + mg.bottom]
       ELSE [el |-> rows.el, h |-> rows.h + mg.top + mg.bottom]

----------------------------------------------------------------------------
(* The dispatch of the Element trait *)

RenderKind(el, area, ctx, path) ==
    CASE el.kind = "Text" -> TextRender(el, area, path)
      [] el.kind = "Paragraph" -> ParagraphRender(el, area, ctx, path)
      [] el.kind = "Break" -> BreakRender(el, area)
      [] el.kind = "PageBreak" -> PageBreakRender(el)
      [] el.kind = "Padded" -> PaddedRender(el, area, ctx, path)
      [] el.kind = "Framed" -> FramedRender(el, area, ctx, path)
      [] el.kind = "Bullet" -> BulletRender(el, area, ctx, path)
      [] el.kind = "List" -> ListRender(el, area, ctx, path)
      [] el.kind = "OList" -> OrderedListRender(el, area, ctx, path)
      [] el.kind = "Linear" -> LinearRender(el, area, ctx, path)
      [] el.kind = "Table" -> TableRender(el, area, ctx, path)

\* the log of a call: the call, what the element did, the return
Logged(el, area, path, o) ==
    Out(o.el, o.res, <<CallEv(path, el, area)>> \o o.ev \o <<RetEv(path, o.el, o.res)>>)

Render(el, area, ctx, path) == Logged(el, area, path, RenderKind(el, area, ctx, path))

GetProbableHeight(el, area, ctx) ==
    CASE el.kind = "Text" -> [el |-> el, h |-> LineH]
      [] el.kind = "Paragraph" -> ParagraphProbableHeight(el, area, ctx)
      [] el.kind = "Break" -> [el |-> el, h |-> BreakProbableHeight(el, area)]
      [] el.kind = "PageBreak" -> [el |-> el, h |-> 0]
      [] el.kind = "Padded" ->
            LET m == GetProbableHeight(el.element, PaddedArea(el, area), ctx)
            IN [el |-> [el EXCEPT !.element = m.el],
                h |-> m.h + el.padding.top + el.padding.bottom]
      [] el.kind \in {"Framed", "Bullet"} ->
            LET m == GetProbableHeight(el.element, area, ctx)
            IN [el |-> [el EXCEPT !.element = m.el], h |-> m.h]
      [] el.kind \in {"List", "OList"} ->
            LET m == GetProbableHeight(el.layout, area, ctx)
            IN [el |-> [el EXCEPT !.layout = m.el],
                h |-> m.h + (IF IsSome(el.margins)
                             THEN Unwrap(el.margins).top + Unwrap(el.margins).bottom ELSE 0)]
      [] el.kind = "Linear" -> LinearProbableHeight(el, 1, area, ctx)
      [] el.kind = "Table" -> TableProbableHeight(el, area, ctx)

\* the header callbacks that get_probable_height invokes on el and on the
\* elements inside it, in the order of the calls
RECURSIVE ListMeasureCalls(_, _, _, _)
ListMeasureCalls(els, i, ctx, path) ==
    IF i > Len(els) THEN <<>>
    ELSE MeasureCalls(els[i], ctx, Append(path, i)) \o ListMeasureCalls(els, i + 1, ctx, path)

RECURSIVE RowsMeasureCalls(_, _, _, _)
RowsMeasureCalls(rows, i, ctx, path) ==
    IF i > Len(rows) THEN <<>>
    ELSE CellsMeasureCalls(rows[i].cells, Len(rows[i].cells), 1, ctx, Append(path, i))
         \o RowsMeasureCalls(rows, i + 1, ctx, path)

\* TableLayout::get_probable_height, lines 2509-2523: the callback, then its element
TableMeasureCalls(self, ctx, path) ==
    IF IsSome(self.header_row_callback_fn)
    THEN <<MeasureEv(path, ctx.page_number)>>
         \o (IF HeaderCallback(Unwrap(self.header_row_callback_fn), ctx.page_number).err = ""
             THEN MeasureCalls(HeaderCallback(Unwrap(self.header_row_callback_fn),
                                              ctx.page_number).el,
                               ctx, Append(path, 0))
             ELSE <<>>)
    ELSE <<>>

MeasureCalls(el, ctx, path) ==
    CASE el.kind \in {"Padded", "Framed", "Bullet"} -> MeasureCalls(el.element, ctx, Append(path, 1))
      [] el.kind \in {"List", "OList"} -> MeasureCalls(el.layout, ctx, Append(path, 1))
      [] el.kind = "Linear" -> ListMeasureCalls(el.elements, 1, ctx, path)
      [] el.kind = "Table" ->
            RowsMeasureCalls(el.rows, 1, ctx, path) \o TableMeasureCalls(el, ctx, path)
      [] OTHER -> <<>>

----------------------------------------------------------------------------
(* The elements and rows the caller builds documents from *)

ParaA == NewParagraph(<<"a">>)
ParaLong == NewParagraph(<<"a", " ", "b", " ", "c", " ", "#", "{", "p", "a", "g", "e", "}">>)
ParaWide == NewParagraph(<<"w", "w", "w", "w", "w", "w", "w">>)

SmallTable ==
    LET t0 == [NewTableLayout(<<1, 1>>, TRUE, TRUE) EXCEPT !.header_row_callback_fn = Some("para")]
        t1 == PushRow(t0, <<NewCell(ParaA), NewCell(ParaLong)>>, None).t
    IN PushRow(t1, <<NewCell(ParaA), NewCell(ParaA)>>, None).t

Catalog ==
    { NewBreak(1), NewPageBreak, ParaA, ParaLong, ParaWide,
      NewFramed(ParaLong), NewPadded(ParaA, Trbl(1, 1, 1, 1)),
      ListPush(ListPush(NewUnorderedList, ParaA), ParaLong), SmallTable }

RowInputs ==
    { [cells |-> <<>>, row_height |-> None],
      [cells |-> <<NewCell(ParaA)>>, row_height |-> None],
      [cells |-> <<NewCell(ParaWide)>>, row_height |-> Some(4)],
      [cells |-> <<NewCell(NewFramed(ParaA))>>, row_height |-> None],
      [cells |-> <<NewCell(ParaA), NewCell(ParaLong)>>, row_height |-> None],
      [cells |-> <<NewCell(ParaLong), NewCell(ParaA)>>, row_height |-> Some(4)],
      [cells |-> <<NewCell(NewFramed(ParaA)), NewCell(LinearPush(NewLinearLayout, ParaA))>>,
       row_height |-> None],
      [cells |-> <<NewCell(ParaA), NewCell(ParaA), NewCell(ParaA)>>, row_height |-> None] }

HeaderCallbacks == {"para", "table", "err"}

InitialRoots ==
    {NewLinearLayout}
    \cup {NewTableLayout(w, b, b) : w \in {<<1>>, <<1, 1>>}, b \in BOOLEAN}

----------------------------------------------------------------------------
(* The state machine: the caller builds the element, then the page driver
   renders it into one fresh page body after the other *)

Init ==
    /\ root \in InitialRoots
    /\ phase = "build"
    /\ page = 0
    /\ pageSize \in {Size(PageW, h) : h \in PageHeights}
    /\ res = DefaultResult
    /\ log = <<>>
    /\ finished = {}
    /\ stuck = FALSE
    /\ calls = 0
    /\ pushed = ""

\* LinearLayout::push
Push(el) ==
    /\ phase = "build"
    /\ root.kind = "Linear"
    /\ Len(root.elements) < MaxChildren
    /\ root' = LinearPush(root, el)
    /\ UNCHANGED <<phase, page, pageSize, res, log, finished, stuck, calls, pushed>>

\* TableLayout::push_row, TableLayoutRow::push
PushRowAct(row) ==
    /\ phase = "build"
    /\ root.kind = "Table"
    /\ Len(root.rows) < MaxRows
    /\ LET r == PushRow(root, row.cells, row.row_height)
       IN /\ root' = r.t
          /\ pushed' = r.r
    /\ UNCHANGED <<phase, page, pageSize, res, log, finished, stuck, calls>>

\* TableLayout::register_header_row_callback_fn
RegisterHeaderRowCallbackFn(cb) ==
    /\ phase = "build"
    /\ root.kind = "Table"
    /\ root' = [root EXCEPT !.header_row_callback_fn = Some(cb)]
    /\ UNCHANGED <<phase, page, pageSize, res, log, finished, stuck, calls, pushed>>

\* the paths of the elements that returned has_more = false in a call
Finished(ev) ==
    {ev[i].path : i \in {j \in 1..Len(ev) : ev[j].op = "ret" /\ ~ev[j].more /\ ev[j].err = ""}}

\* the driver takes the result o of the root's render call for page p
Rendered(p, o) ==
    /\ root' = o.el
    /\ res' = o.res
    /\ log' = o.ev
    /\ page' = p
    /\ phase' = IF IsErr(o.res) THEN "failed"
                ELSE IF o.res.has_more THEN "render" ELSE "done"
    /\ stuck' = (~IsErr(o.res) /\ o.res.has_more /\ o.el = root)
    /\ finished' = finished \cup Finished(o.ev)
    /\ calls' = 1 - calls
    /\ UNCHANGED <<pageSize, pushed>>

NextPage == IF page < MaxPage THEN page + 1 ELSE page

\* Element::render on the root, into the body of the next page
RenderPage ==
    /\ phase \in {"build", "render"}
    /\ Rendered(NextPage, Render(root, NewArea(pageSize), [page_number |-> NextPage], <<>>))

Next ==
    \/ \E el \in Catalog : Push(el)
    \/ \E row \in RowInputs : PushRowAct(row)
    \/ \E cb \in HeaderCallbacks : RegisterHeaderRowCallbackFn(cb)
    \/ RenderPage

Spec == Init /\ [][Next]_vars

\* RenderPage is enabled exactly in the phases build and render, and it is the
\* only action that changes calls: RenderStep holds of the steps RenderPage takes
RenderStep == phase \in {"build", "render"} /\ calls' = 1 - calls

\* the driver goes on calling render for as long as the root has more
FairSpec == Spec /\ WF_calls(RenderStep)

----------------------------------------------------------------------------
(* The lists: the caller pushes items and sub-lists to an ordered or an
   unordered list, then the page driver renders it *)

Starts == {1, 9}

ListItems == {ParaA, ParaLong}

SubLists ==
    { OrderedListPush(OrderedListPush(NewOrderedList, ParaA), ParaA),
      ListPush(NewUnorderedList, ParaA) }

ListPageHeights == {7, 16}

ListInit ==
    /\ root \in {WithStart(k) : k \in Starts} \cup {NewUnorderedList}
    /\ phase = "build"
    /\ page = 0
    /\ pageSize \in {Size(PageW, h) : h \in ListPageHeights}
    /\ res = DefaultResult
    /\ log = <<>>
    /\ finished = {}
    /\ stuck = FALSE
    /\ calls = 0
    /\ pushed = ""

\* a step of the caller that leaves root as list
Pushes(list, how) ==
    /\ phase = "build"
    /\ Len(root.layout.elements) < MaxItems
    /\ root' = list
    /\ pushed' = how
    /\ UNCHANGED <<phase, page, pageSize, res, log, finished, stuck, calls>>

\* UOList::push
ListPushAct(el) == Pushes(UOListPush(root, el), "push")

\* UOList::push_list
ListPushListAct(sub) == Pushes(UOListPushList(root, sub), "push_list")

\* OrderedList::push_list and UnorderedList::push_list, called on the list itself
PushListAct(sub) ==
    Pushes(IF root.kind = "OList"
           THEN OrderedListPushList(root, sub) ELSE UnorderedListPushList(root, sub),
           "push_list")

ListNext ==
    \/ \E el \in ListItems : ListPushAct(el)
    \/ \E sub \in SubLists : ListPushListAct(sub)
    \/ \E sub \in SubLists : PushListAct(sub)
    \/ RenderPage

ListSpec == ListInit /\ [][ListNext]_vars

----------------------------------------------------------------------------
(* The paragraphs: the caller sets the alignment and the margins of a
   paragraph, then the page driver renders it *)

ParaTexts ==
    { <<"a">>,
      <<"a", " ", "b", " ", "c", " ", "d", " ", "e">>,
      <<"a", " ", "b", " ", "c", " ", "d", " ", "w", "w", "w", "w", "w", "w", "w">> }

Alignments == {"Left", "Center", "Right"}

ParaPageSizes == {Size(w, h) : w \in {16, PageW}, h \in {2, 4, 7}}

ParaInit ==
    /\ root \in {NewParagraph(t) : t \in ParaTexts}
    /\ phase = "build"
    /\ page = 0
    /\ pageSize \in ParaPageSizes
    /\ res = DefaultResult
    /\ log = <<>>
    /\ finished = {}
    /\ stuck = FALSE
    /\ calls = 0
    /\ pushed = ""

\* Paragraph::set_alignment
SetAlignment(alignment) ==
    /\ phase = "build"
    /\ root' = [root EXCEPT !.alignment = alignment]
    /\ UNCHANGED <<phase, page, pageSize, res, log, finished, stuck, calls, pushed>>

\* Paragraph::set_margins
SetMargins(margins) ==
    /\ phase = "build"
    /\ root' = [root EXCEPT !.margins = Some(margins)]
    /\ UNCHANGED <<phase, page, pageSize, res, log, finished, stuck, calls, pushed>>

\* Paragraph::set_underline
SetUnderline(underline) ==
    /\ phase = "build"
    /\ root' = [root EXCEPT !.underline = underline]
    /\ UNCHANGED <<phase, page, pageSize, res, log, finished, stuck, calls, pushed>>

ParaNext ==
    \/ \E alignment \in Alignments : SetAlignment(alignment)
    \/ SetMargins(Trbl(1, 1, 1, 1))
    \/ \E underline \in BOOLEAN : SetUnderline(underline)
    \/ RenderPage

ParaSpec == ParaInit /\ [][ParaNext]_vars

----------------------------------------------------------------------------
(* The tables: the caller pushes rows to a table, registers a header row
   callback, sets the header flag and the margins, then the page driver
   renders the table *)

\* a table of one column that holds a header row callback, for a cell
NestedTable ==
    PushRow([NewTableLayout(<<1>>, FALSE, FALSE) EXCEPT !.header_row_callback_fn = Some("para")],
            <<NewCell(ParaA)>>, None).t

TableRowInputs ==
    { [cells |-> <<NewCell(ParaA), NewCell(ParaLong)>>, row_height |-> None],
      [cells |-> <<NewCell(ParaA), NewCell(ParaA)>>, row_height |-> None],
      [cells |-> <<NewCell(ParaA), NewCell(ParaA)>>, row_height |-> Some(4)],
      [cells |-> <<NewCell(NestedTable), NewCell(ParaA)>>, row_height |-> None] }

TablePageHeights == {2, 4, 7, 16}

TableInit ==
    /\ root \in {NewTableLayout(<<1, 1>>, inner, outer) : inner \in BOOLEAN, outer \in BOOLEAN}
    /\ phase = "build"
    /\ page = 0
    /\ pageSize \in {Size(PageW, h) : h \in TablePageHeights}
    /\ res = DefaultResult
    /\ log = <<>>
    /\ finished = {}
    /\ stuck = FALSE
    /\ calls = 0
    /\ pushed = ""

\* TableLayout::set_has_header_row_callback
SetHasHeaderRowCallback(has_header_row_callback) ==
    /\ phase = "build"
    /\ root' = [root EXCEPT !.has_header_row_callback = has_header_row_callback]
    /\ UNCHANGED <<phase, page, pageSize, res, log, finished, stuck, calls, pushed>>

\* TableLayout::set_margins
TableSetMargins(margins) ==
    /\ phase = "build"
    /\ root' = [root EXCEPT !.margins = Some(margins)]
    /\ UNCHANGED <<phase, page, pageSize, res, log, finished, stuck, calls, pushed>>

TableNext ==
    \/ \E row \in TableRowInputs : PushRowAct(row)
    \/ \E cb \in HeaderCallbacks : RegisterHeaderRowCallbackFn(cb)
    \/ \E b \in BOOLEAN : SetHasHeaderRowCallback(b)
    \/ TableSetMargins(Trbl(1, 1, 1, 1))
    \/ RenderPage

TableSpec == TableInit /\ [][TableNext]_vars

----------------------------------------------------------------------------
(* The renderer: the caller creates a Renderer, adds pages to it and layers
   to its pages.  root is the Renderer, log the add_page calls made on it
   so far. *)

MaxPages == 4        \* pages of a Renderer
MaxLayers == 2       \* layers of a page

PaperSizes == {Size(PageW, 7), Size(16, 4)}

\* Page::new: the page of the given size, with its first layer
NewPage(size) == [size |-> size, layers |-> 1]

\* Renderer::new
NewRenderer(size) == [kind |-> "Renderer", pages |-> <<NewPage(size)>>]

\* an add_page that puts the new page in the place of the last one
AddPageReplacesLast(self, size) == [self EXCEPT !.pages[Len(self.pages)] = NewPage(size)]

\* Renderer::add_page
AddPage(self, size) == [self EXCEPT !.pages = Append(@, NewPage(size))]

\* Renderer::page_count
PageCount(self) == Len(self.pages)

\* Renderer::get_page: None when idx is not the index of a page
GetPage(self, idx) == IF idx < Len(self.pages) THEN Some(self.pages[idx + 1]) ELSE None

\* Renderer::first_page, Renderer::last_page: the index they read
FirstPageIdx(self) == 0
LastPageIdx(self) == Len(self.pages) - 1

\* Page::add_layer
AddLayer(pg) == [pg EXCEPT !.layers = @ + 1]

RendererInit ==
    /\ root \in {NewRenderer(size) : size \in PaperSizes}
    /\ phase = "build"
    /\ page = 0
    /\ pageSize = root.pages[1].size
    /\ res = DefaultResult
    /\ log = <<>>
    /\ finished = {}
    /\ stuck = FALSE
    /\ calls = 0
    /\ pushed = ""

\* renderer.add_page(size)
AddPageAct(size) ==
    /\ Len(root.pages) < MaxPages
    /\ root' = AddPage(root, size)
    /\ log' = Append(log, [NoEv EXCEPT !.op = "add_page", !.w = size.width, !.h = size.height])
    /\ UNCHANGED <<phase, page, pageSize, res, finished, stuck, calls, pushed>>

\* renderer.get_page_mut(idx).map(|p| p.add_layer(..))
AddLayerAct(idx) ==
    /\ IsSome(GetPage(root, idx))
    /\ root.pages[idx + 1].layers < MaxLayers
    /\ root' = [root EXCEPT !.pages[idx + 1] = AddLayer(@)]
    /\ UNCHANGED <<phase, page, pageSize, res, log, finished, stuck, calls, pushed>>

RendererNext ==
    \/ \E size \in PaperSizes : AddPageAct(size)
    \/ \E idx \in 0..(MaxPages - 1) : AddLayerAct(idx)

RendererSpec == RendererInit /\ [][RendererNext]_vars

----------------------------------------------------------------------------
(* The areas: the caller splits an area into the areas of the columns.  root
   holds the area, the column widths of the last split and its sub-areas. *)

SplitAreas ==
    {[x |-> x, y |-> y, w |-> w, h |-> h, margin_top |-> 0] :
        x \in {0, 5}, y \in {0, 3}, w \in {12, PageW}, h \in {4, 7}}

\* the sums of the weights are 1, 2, 3, 4 and 6: they divide the widths of SplitAreas
ColumnInputs ==
    {Weights(v) : v \in {<<>>, <<1>>, <<1, 1>>, <<1, 2>>, <<3, 1>>, <<0, 1>>,
                          <<2, 1, 1>>, <<1, 2, 3>>}}
    \cup {PixelWidths(v) : v \in {<<5>>, <<5, 7>>, <<12, 12>>, <<10, 0, 20>>}}

SplitInit ==
    /\ root \in {[kind |-> "Area", area |-> a, columns |-> None, areas |-> <<>>] :
                    a \in SplitAreas}
    /\ phase = "build"
    /\ page = 0
    /\ pageSize = Size(PageW, 7)
    /\ res = DefaultResult
    /\ log = <<>>
    /\ finished = {}
    /\ stuck = FALSE
    /\ calls = 0
    /\ pushed = ""

\* area.split_horizontally(&columns)
SplitHorizontallyAct(columns) ==
    /\ root' = [root EXCEPT !.columns = Some(columns),
                            !.areas = SplitColumns(root.area, columns)]
    /\ UNCHANGED <<phase, page, pageSize, res, log, finished, stuck, calls, pushed>>

SplitNext == \E columns \in ColumnInputs : SplitHorizontallyAct(columns)

SplitSpec == SplitInit /\ [][SplitNext]_vars

----------------------------------------------------------------------------
(* Areas: add_offset and add_margins are called on an area, one after the
   other; the log keeps the calls *)

MaxOps == 3          \* calls on an area

Offsets == {<<0, 0>>, <<1, 2>>, <<3, 0>>}

AreaMargins == {Trbl(1, 1, 1, 1), Trbl(2, 0, 3, 1)}

AreaInit ==
    /\ root \in {[kind |-> "Area", start |-> a, area |-> a] : a \in SplitAreas}
    /\ phase = "build"
    /\ page = 0
    /\ pageSize = Size(PageW, 7)
    /\ res = DefaultResult
    /\ log = <<>>
    /\ finished = {}
    /\ stuck = FALSE
    /\ calls = 0
    /\ pushed = ""

\* area.add_offset(Position::new(dx, dy))
AddOffsetAct(dx, dy) ==
    /\ Len(log) < MaxOps
    /\ root' = [root EXCEPT !.area = AddOffset(@, dx, dy)]
    /\ log' = Append(log, [NoEv EXCEPT !.op = "add_offset", !.w = dx, !.h = dy])
    /\ UNCHANGED <<phase, page, pageSize, res, finished, stuck, calls, pushed>>

\* area.add_margins(margins)
AddMarginsAct(margins) ==
    /\ Len(log) < MaxOps
    /\ root' = [root EXCEPT !.area = AddMargins(@, margins)]
    /\ log' = Append(log, [NoEv EXCEPT !.op = "add_margins", !.s = <<margins>>])
    /\ UNCHANGED <<phase, page, pageSize, res, finished, stuck, calls, pushed>>

AreaNext ==
    \/ \E o \in Offsets : AddOffsetAct(o[1], o[2])
    \/ \E margins \in AreaMargins : AddMarginsAct(margins)

AreaSpec == AreaInit /\ [][AreaNext]_vars

----------------------------------------------------------------------------
(* Text and padding: the caller makes a Text or a Paragraph, may wrap it in
   a PaddedElement, then the page driver renders it *)

TextStrings == {<<"a">>, <<"h", "i">>, <<"w", "w", "w", "w", "w", "w", "w">>}

Paddings == {Trbl(1, 1, 1, 1), Trbl(2, 0, 3, 1), Trbl(0, 2, 0, 0)}

TextPageSizes == {Size(w, h) : w \in {16, PageW}, h \in {1, 2, 3, 4, 7}}

TextInit ==
    /\ root \in {NewText(t) : t \in TextStrings} \cup {ParaA, ParaLong, ParaWide}
    /\ phase = "build"
    /\ page = 0
    /\ pageSize \in TextPageSizes
    /\ res = DefaultResult
    /\ log = <<>>
    /\ finished = {}
    /\ stuck = FALSE
    /\ calls = 0
    /\ pushed = ""

\* PaddedElement::new around the element
Pad(padding) ==
    /\ phase = "build"
    /\ root.kind # "Padded"
    /\ root' = NewPadded(root, padding)
    /\ UNCHANGED <<phase, page, pageSize, res, log, finished, stuck, calls, pushed>>

TextNext ==
    \/ \E padding \in Paddings : Pad(padding)
    \/ RenderPage

TextSpec == TextInit /\ [][TextNext]_vars

----------------------------------------------------------------------------
(* Reading the log of the last render call, and the tree of elements *)

Last(q) == q[Len(q)]

Front(q) == SubSeq(q, 1, Len(q) - 1)

CallsOf(ev, kind) == {i \in 1..Len(ev) : ev[i].op = "call" /\ ev[i].kind = kind}

\* the return of the call logged at i
RetOf(ev, i) == CHOOSE j \in (i + 1)..Len(ev) : ev[j].op = "ret" /\ ev[j].path = ev[i].path

\* the calls and the returns of the children of the element called at i
ChildCalls(ev, i) ==
    {k \in (i + 1)..(RetOf(ev, i) - 1) :
        ev[k].op = "call" /\ Len(ev[k].path) = Len(ev[i].path) + 1}

ChildRets(ev, i) ==
    {k \in (i + 1)..(RetOf(ev, i) - 1) :
        ev[k].op = "ret" /\ Len(ev[k].path) = Len(ev[i].path) + 1}

Completed(e) == ~e.more /\ e.err = ""

\* the elements directly inside an element
RECURSIVE CellElements(_)
CellElements(rows) ==
    IF rows = <<>> THEN <<>>
    ELSE [i \in 1..Len(Head(rows).cells) |-> Head(rows).cells[i].element]
         \o CellElements(Tail(rows))

Children(el) ==
    CASE el.kind \in {"Padded", "Framed", "Bullet"} -> <<el.element>>
      [] el.kind \in {"List", "OList"} -> <<el.layout>>
      [] el.kind = "Linear" -> el.elements
      [] el.kind = "Table" -> CellElements(el.rows)
      [] OTHER -> <<>>

\* the cursors of all the LinearLayouts of a tree, in preorder
RECURSIVE Cursors(_)
RECURSIVE CursorsOfAll(_)
CursorsOfAll(els) == IF els = <<>> THEN <<>> ELSE Cursors(Head(els)) \o CursorsOfAll(Tail(els))

Cursors(el) ==
    (IF el.kind = "Linear" THEN <<el.render_idx>> ELSE <<>>) \o CursorsOfAll(Children(el))

----------------------------------------------------------------------------
(* C1: in every render call of a LinearLayout, a child that returns
   has_more = true makes the call return has_more = true with render_idx
   still at that child, every child that returns has_more = false moves
   render_idx on by exactly one, and render_idx stays within
   [0, number of children]; from one call to the next no render_idx of the
   tree decreases. *)

LinearCallObeys(ev, i) ==
    LET c == ev[i]
        r == ev[RetOf(ev, i)]
        kids == ChildRets(ev, i)
    IN /\ 0 <= c.idx /\ c.idx <= r.idx /\ r.idx <= r.n /\ r.n = c.n
       /\ \A k \in kids :
            /\ ev[k].more => (r.more /\ r.err = "" /\ r.idx = Last(ev[k].path) - 1)
            /\ Completed(ev[k]) => r.idx >= Last(ev[k].path)
       /\ r.idx - c.idx = Cardinality({k \in kids : Completed(ev[k])})

CursorsNeverDecrease ==
    \A i \in 1..Len(Cursors(root)) : Cursors(root')[i] >= Cursors(root)[i]

C1_CursorLaw ==
    /\ [](\A i \in CallsOf(log, "Linear") : LinearCallObeys(log, i))
    /\ [][CursorsNeverDecrease]_vars

\* a layout returned has_more = true at a child after completing an earlier one
C1_Witness ==
    \E i \in CallsOf(log, "Linear") :
        /\ \E k \in ChildRets(log, i) : log[k].more
        /\ \E k \in ChildRets(log, i) : Completed(log[k])
        /\ log[RetOf(log, i)].idx > 0

----------------------------------------------------------------------------
(* C2: a render call of a LinearLayout that returns without an error returns
   has_more = false exactly when render_idx equals the number of children
   at the return; a layout that is called with render_idx at the number of
   its children (all completed, or none pushed) returns has_more = false
   and renders no child. *)

LinearReturnObeys(ev, i) ==
    LET c == ev[i]
        r == ev[RetOf(ev, i)]
    IN /\ r.err = "" => (~r.more <=> r.idx = r.n)
       /\ c.idx = c.n => (~r.more /\ r.err = "" /\ RetOf(ev, i) = i + 1)

C2_HasMoreIffCursorShort == \A i \in CallsOf(log, "Linear") : LinearReturnObeys(log, i)

\* a layout all of whose children had completed is rendered once more
C2_Witness ==
    \E i \in CallsOf(log, "Linear") :
        log[i].n > 0 /\ log[i].idx = log[i].n /\ ~log[RetOf(log, i)].more

----------------------------------------------------------------------------
(* C3: a LinearLayout keeps its children in the order of the pushes and
   renders them in that order: in a render call the children are called in
   increasing position, a child after the first is called only when the
   child before it has returned has_more = false, in this call or in an
   earlier one, and a child that has returned has_more = false is not
   called again. *)

\* the step is a render call: log' is its log, finished holds the completions before it
ChildOrderObeyed(ev, i, k) ==
    LET q == ev[k].path
        before == Append(Front(q), Last(q) - 1)
    IN /\ q \notin finished
       /\ Last(q) > 1 =>
             \/ before \in finished
             \/ \E j \in ChildRets(ev, i) : j < k /\ ev[j].path = before /\ Completed(ev[j])
       /\ \A j \in ChildCalls(ev, i) : j < k => Last(ev[j].path) < Last(q)

RenderKeepsOrder ==
    calls' # calls =>
        \A i \in CallsOf(log', "Linear") :
            \A k \in ChildCalls(log', i) : ChildOrderObeyed(log', i, k)

PushKeepsOrder ==
    (calls' = calls /\ root.kind = "Linear" /\ root' # root) =>
        /\ Len(root'.elements) = Len(root.elements) + 1
        /\ Front(root'.elements) = root.elements

C3_InsertionOrder == [][RenderKeepsOrder /\ PushKeepsOrder]_vars

\* a layout resumes at a later child and goes on to the child after it
C3_Witness ==
    \E i \in CallsOf(log, "Linear") :
        /\ log[i].idx >= 1
        /\ Cardinality(ChildCalls(log, i)) >= 2

----------------------------------------------------------------------------
(* C4: every element that is rendered again and again, each time into a
   fresh page body of the same positive size, reaches a call that returns
   has_more = false (or ends the rendering with an error) after finitely
   many calls. *)

C4_EveryElementCompletes == <>(phase = "done" \/ phase = "failed")

\* a call has returned has_more = true and left the element as it was
C4_Witness == stuck /\ phase = "render" /\ page >= 2

----------------------------------------------------------------------------
(* C5: in every render call of a TableLayout a row is either rendered
   completely (its render_row returns has_more = false) or nothing of it
   is drawn in that call: no border or background of a cell, no content
   of a cell. *)

IsPrefix(q, r) == Len(q) <= Len(r) /\ SubSeq(r, 1, Len(q)) = q

\* the events that put something on the page
Draws(e) ==
    \/ e.op \in {"text", "fill", "frame"}
    \/ e.op = "decorate" /\ e.s # <<>>

\* the drawing done for the row whose render_row is logged at j
RowDraws(ev, j) ==
    {k \in 1..j : Draws(ev[k]) /\ IsPrefix(Append(ev[j].path, ev[j].idx + 1), ev[k].path)}

C5_RowsAreAtomic ==
    \A j \in 1..Len(log) :
        (log[j].op = "row" /\ log[j].more /\ log[j].err = "") => RowDraws(log, j) = {}

\* a call renders one row completely and does not start the next one
C5_Witness ==
    \E i, j \in 1..Len(log) :
        /\ log[i].op = "row" /\ ~log[i].more /\ log[i].err = "" /\ RowDraws(log, i) # {}
        /\ log[j].op = "row" /\ log[j].more /\ RowDraws(log, j) = {}
        /\ log[i].path = log[j].path /\ log[j].idx = log[i].idx + 1

----------------------------------------------------------------------------
(* C6: in every render call of a TableLayout that holds a header row
   callback, the callback is called first, with the number of the page
   being rendered, and the element it returns has been rendered before
   anything is done for a data row in that call. *)

\* the events of the rows of the table at path q: render_row, and all that
\* happens in the cells of a row
OfDataRow(e, q) ==
    \/ e.op = "row" /\ e.path = q
    \/ IsPrefix(q, e.path) /\ Len(e.path) > Len(q) /\ e.path[Len(q) + 1] >= 1

\* the callback is the first thing the table does once its decorator knows
\* the size of the table
HeaderComesFirst(ev, i) ==
    LET q == ev[i].path
        j == RetOf(ev, i)
        first == IF ev[i + 1].op = "set_table_size" THEN i + 2 ELSE i + 1
    IN /\ ev[first].op = "header_cb" /\ ev[first].path = q /\ ev[first].idx = page
       /\ \A k \in (i + 1)..(j - 1) :
             OfDataRow(ev[k], q) =>
                \E h \in (i + 1)..(k - 1) :
                    ev[h].op = "ret" /\ ev[h].path = Append(q, 0) /\ ev[h].err = ""

C6_HeaderBeforeRows ==
    \A i \in CallsOf(log, "Table") : log[i].s # <<>> => HeaderComesFirst(log, i)

\* on a later page of a table with a header row callback a data row is
\* rendered completely
C6_Witness ==
    /\ page >= 2
    /\ \E i \in CallsOf(log, "Table") :
          /\ log[i].s # <<>>
          /\ \E k \in (i + 1)..(RetOf(log, i) - 1) :
                log[k].op = "row" /\ log[k].path = log[i].path /\ ~log[k].more
                /\ log[k].err = "" /\ log[k].idx >= 1

----------------------------------------------------------------------------
(* C7: every #{page} token of a paragraph is drawn, on whichever page it is
   drawn, as the decimal number of that page.  The texts of the catalog
   hold no digit, so the strings of digits on a page are the tokens. *)

IsNumber(str) == str # <<>> /\ \A i \in 1..Len(str) : \E d \in 0..9 : str[i] = Digit(d)

C7_TokenShowsItsPage ==
    \A k \in 1..Len(log) :
        log[k].op = "text" =>
            /\ ~Contains(log[k].s, PageToken)
            /\ IsNumber(log[k].s) => log[k].s = Decimal(page)

\* a token is drawn on a later page, with the number of that page
C7_Witness ==
    /\ page >= 2
    /\ \E k \in 1..Len(log) : log[k].op = "text" /\ log[k].s = Decimal(page)

----------------------------------------------------------------------------
(* C8: the first render call of a PageBreak returns has_more = true with
   the size (1, 0), every later call returns has_more = false with the
   empty size; in a LinearLayout nothing is rendered after the PageBreak in
   the call of its first render, and in a later call the element after it
   gets the area the PageBreak was given. *)

PageBreakObeys(ev, i) ==
    LET r == ev[RetOf(ev, i)]
    IN /\ r.err = "" /\ r.idx = 1
       /\ ev[i].idx = 0 => (r.more /\ r.w = 1 /\ r.h = 0)
       /\ ev[i].idx = 1 => (~r.more /\ r.w = 0 /\ r.h = 0)

AfterPageBreak(ev, i) ==
    \A k \in ChildCalls(ev, i) :
        ev[k].kind = "PageBreak" =>
            \A j \in ChildCalls(ev, i) :
                j > k => /\ ev[k].idx = 1
                         /\ Last(ev[j].path) = Last(ev[k].path) + 1
                            => (ev[j].w = ev[k].w /\ ev[j].h = ev[k].h)

C8_PageBreakProtocol ==
    /\ \A i \in CallsOf(log, "PageBreak") : PageBreakObeys(log, i)
    /\ \A i \in CallsOf(log, "Linear") : AfterPageBreak(log, i)

\* a page break that follows other content is over, and the element after it
\* is rendered in the same call
C8_Witness ==
    \E i \in CallsOf(log, "Linear") :
        \E k, j \in ChildCalls(log, i) :
            /\ log[k].kind = "PageBreak" /\ log[k].idx = 1 /\ Last(log[k].path) >= 2
            /\ j > k /\ log[j].kind = "Paragraph"

----------------------------------------------------------------------------
(* C9: a Break that is rendered into an area lower than the height of its
   remaining lines reports the whole height of the area, returns
   has_more = true and takes the lines the area held off its count.  The log
   keeps the count as lines * LineH, which is the height of the break. *)

BreakCallShort(ev, i) == ev[i].idx > 0 /\ ev[i].h < ev[i].idx

C9_BreakFillsAndContinues ==
    \A i \in CallsOf(log, "Break") :
        BreakCallShort(log, i) =>
            LET r == log[RetOf(log, i)]
            IN /\ r.h = log[i].h
               /\ r.idx = log[i].idx - log[i].h
               /\ r.more

\* a Break fills an area lower than itself and keeps the rest of its lines
C9_Witness ==
    \E i \in CallsOf(log, "Break") :
        /\ BreakCallShort(log, i)
        /\ log[RetOf(log, i)].h = log[i].h
        /\ log[RetOf(log, i)].idx = log[i].idx - log[i].h
        /\ ~log[RetOf(log, i)].more

----------------------------------------------------------------------------
(* C10: push_row appends the row when the number of its cells equals the
   number of columns, and only then; otherwise it returns InvalidData and
   leaves the rows as they were.  Every row a table holds has as many cells
   as the table has columns. *)

RowsMatchColumns(t) == \A i \in 1..Len(t.rows) : Len(t.rows[i].cells) = Len(t.column_weights)

PushRowLaw ==
    \A row \in RowInputs :
        PushRowAct(row) =>
            IF Len(row.cells) = Len(root.column_weights)
            THEN /\ pushed' = "Ok"
                 /\ root'.rows = Append(root.rows, [cells |-> row.cells,
                                                    row_height |-> row.row_height])
            ELSE /\ pushed' = "InvalidData"
                 /\ root'.rows = root.rows

C10_PushRowChecksCells ==
    /\ [](root.kind = "Table" => RowsMatchColumns(root))
    /\ [][PushRowLaw]_vars

\* a table that holds a row has refused another one
C10_Witness ==
    /\ root.kind = "Table" /\ phase = "build"
    /\ Len(root.rows) >= 1
    /\ pushed = "InvalidData"

----------------------------------------------------------------------------
(* C11: in an OrderedList created with with_start(k) the bullet of the i-th
   pushed item is the decimal of k + i - 1 followed by "."; every push
   appends one item under the bullet of the counter and moves the counter
   on by exactly one, and push_list leaves the counter as it is. *)

IsList(el) == el.kind \in {"List", "OList"}

\* the bullets of the items of a list; what push_list added is no item
RECURSIVE ItemBullets(_)
ItemBullets(points) ==
    IF points = <<>> THEN <<>>
    ELSE (IF IsList(Head(points).element) THEN <<>> ELSE <<Head(points).bullet>>)
         \o ItemBullets(Tail(points))

FlatNumbering(l) ==
    LET b == ItemBullets(l.layout.elements)
    IN \E k \in Starts :
          /\ l.number = k + Len(b)
          /\ \A i \in 1..Len(b) : b[i] = Decimal(k + i - 1) \o <<".">>

PushCounts ==
    \A el \in ListItems :
        (ListPushAct(el) /\ root.kind = "OList") =>
            /\ root'.number = root.number + 1
            /\ Front(root'.layout.elements) = root.layout.elements
            /\ Last(root'.layout.elements).bullet = Decimal(root.number) \o <<".">>
            /\ Last(root'.layout.elements).element = el

PushListKeepsNumber ==
    \A sub \in SubLists :
        ((ListPushListAct(sub) \/ PushListAct(sub)) /\ root.kind = "OList") =>
            /\ root'.number = root.number
            /\ Front(root'.layout.elements) = root.layout.elements

C11_FlatNumbering ==
    /\ [](root.kind = "OList" => FlatNumbering(root))
    /\ [][PushCounts /\ PushListKeepsNumber]_vars

\* a list started at 9 holds the items 9., 10. and a sub-list, and has just got an item
C11_Witness ==
    /\ root.kind = "OList" /\ phase = "build" /\ pushed = "push"
    /\ root.number >= 11
    /\ \E i \in 1..Len(root.layout.elements) : IsList(root.layout.elements[i].element)
    /\ <<"1", "0", ".">> \in {root.layout.elements[i].bullet : i \in 1..Len(root.layout.elements)}

----------------------------------------------------------------------------
(* C12: an OrderedList starting at 1 gets the items 1 and 2, then an
   OrderedList that holds two items is added with push_list, then item 3 is
   pushed; rendered into one page, the markers it prints are, in the order
   of the rendering, 1. 2. 2.1. 2.2. 3. *)

\* the non-empty bullets printed in a call, in the order of the printing
Markers(ev) ==
    LET points == {ev[i].path : i \in CallsOf(ev, "Bullet")}
        printed == SelectSeq(ev, LAMBDA e : e.op = "text" /\ e.path \in points /\ e.s # <<>>)
    IN [i \in 1..Len(printed) |-> printed[i].s]

NestedScenario(l) ==
    /\ l.kind = "OList"
    /\ Len(l.layout.elements) = 4
    /\ l.layout.elements[1].bullet = <<"1", ".">>
    /\ \A i \in {1, 2, 4} : l.layout.elements[i].element.kind = "Paragraph"
    /\ l.layout.elements[3].element.kind = "OList"
    /\ Len(l.layout.elements[3].element.layout.elements) = 2

NestedRendered == NestedScenario(root) /\ phase = "done" /\ page = 1

C12_NestedMarkers ==
    NestedRendered =>
        Markers(log) = << <<"1", ".">>, <<"2", ".">>, <<"2", ".", "1", ".">>,
                          <<"2", ".", "2", ".">>, <<"3", ".">> >>

\* the list of the scenario is rendered: the two items of the sub-list show 1. and 2.
C12_Witness ==
    /\ NestedRendered
    /\ Markers(log) = << <<"1", ".">>, <<"2", ".">>, <<"1", ".">>, <<"2", ".">>, <<"3", ".">> >>

----------------------------------------------------------------------------
(* C13: over the render calls of a BulletPoint the bullet is printed at most
   once: a call prints it at most once, a call that returns without an
   error leaves bullet_rendered true, a call that finds bullet_rendered
   true prints no bullet, and bullet_rendered never goes back to false. *)

\* what the element at the call logged at i printed itself, its children apart
OwnPrints(ev, i) ==
    {k \in (i + 1)..(RetOf(ev, i) - 1) : ev[k].op = "text" /\ ev[k].path = ev[i].path}

BulletCallObeys(ev, i) ==
    LET r == ev[RetOf(ev, i)]
    IN /\ Cardinality(OwnPrints(ev, i)) <= 1
       /\ ev[i].idx = 1 => OwnPrints(ev, i) = {}
       /\ r.err = "" => r.idx = 1

\* the flags bullet_rendered of the tree, in preorder
RECURSIVE BulletFlags(_)
RECURSIVE BulletFlagsOfAll(_)
BulletFlagsOfAll(els) ==
    IF els = <<>> THEN <<>> ELSE BulletFlags(Head(els)) \o BulletFlagsOfAll(Tail(els))

BulletFlags(el) ==
    (IF el.kind = "Bullet" THEN <<el.bullet_rendered>> ELSE <<>>)
    \o BulletFlagsOfAll(Children(el))

BulletFlagsStay ==
    \A i \in 1..Len(BulletFlags(root)) : BulletFlags(root)[i] => BulletFlags(root')[i]

C13_BulletPrintedOnce ==
    /\ [](\A i \in CallsOf(log, "Bullet") : BulletCallObeys(log, i))
    /\ [][BulletFlagsStay]_vars

\* on a later page a bullet point whose bullet is printed goes on with its element
C13_Witness ==
    /\ page >= 2
    /\ \E i \in CallsOf(log, "Bullet") :
          /\ log[i].idx = 1
          /\ \E k \in (i + 1)..(RetOf(log, i) - 1) :
                log[k].op = "text" /\ log[k].path = Append(log[i].path, 1)

----------------------------------------------------------------------------
(* C14: over the render calls of a FramedElement, from the first one to the
   one in which its element returns has_more = false, the top edge is drawn
   once, in the first call, the bottom edge is drawn once, in the call in
   which the element returns has_more = false, and the left and the right
   edge are drawn in every call.  is_first is true until the first call
   returns and false from then on. *)

Has(q, x) == \E i \in 1..Len(q) : q[i] = x

\* the polylines the frame called at i draws that hold the edge
EdgeDraws(ev, i, edge) ==
    {k \in (i + 1)..(RetOf(ev, i) - 1) :
        ev[k].op = "frame" /\ ev[k].path = ev[i].path /\ Has(ev[k].s, edge)}

FramedCallObeys(ev, i) ==
    LET r == ev[RetOf(ev, i)]
    IN r.err = "" =>
          /\ Cardinality(EdgeDraws(ev, i, "top")) = (IF ev[i].idx = 1 THEN 1 ELSE 0)
          /\ \A k \in ChildRets(ev, i) :
                Cardinality(EdgeDraws(ev, i, "bottom")) = (IF ev[k].more THEN 0 ELSE 1)
          /\ EdgeDraws(ev, i, "left") # {}
          /\ EdgeDraws(ev, i, "right") # {}
          /\ r.idx = 0

\* the flags is_first of the tree, in preorder
RECURSIVE FirstFlags(_)
RECURSIVE FirstFlagsOfAll(_)
FirstFlagsOfAll(els) ==
    IF els = <<>> THEN <<>> ELSE FirstFlags(Head(els)) \o FirstFlagsOfAll(Tail(els))

FirstFlags(el) ==
    (IF el.kind = "Framed" THEN <<el.is_first>> ELSE <<>>) \o FirstFlagsOfAll(Children(el))

FirstFlagsStayOff ==
    \A i \in 1..Len(FirstFlags(root)) : ~FirstFlags(root)[i] => ~FirstFlags(root')[i]

C14_FrameEdges ==
    /\ [](\A i \in CallsOf(log, "Framed") : FramedCallObeys(log, i))
    /\ [](phase = "build" => \A i \in 1..Len(FirstFlags(root)) : FirstFlags(root)[i])
    /\ [][FirstFlagsStayOff]_vars

\* on a later page a frame is closed: no top edge, the bottom edge, the element is over
C14_Witness ==
    /\ page >= 2
    /\ \E i \in CallsOf(log, "Framed") :
          /\ log[i].idx = 0
          /\ EdgeDraws(log, i, "top") = {}
          /\ EdgeDraws(log, i, "bottom") # {}
          /\ \E k \in ChildRets(log, i) : Completed(log[k]) /\ log[k].h > 0

----------------------------------------------------------------------------
(* C15: get_probable_height leaves the element as it found it, for every
   element: the cursors, the word queue of a Paragraph, its style_applied
   flag, the lines of a Break, the flags of PageBreak, FramedElement and
   BulletPoint; and a second call with the same area returns the height the
   first one returned. *)

\* the elements of a tree, in preorder
RECURSIVE Tree(_)
RECURSIVE TreeOfAll(_)
TreeOfAll(els) == IF els = <<>> THEN <<>> ELSE Tree(Head(els)) \o TreeOfAll(Tail(els))

Tree(el) == <<el>> \o TreeOfAll(Children(el))

\* get_probable_height called on the root, with the body of the next page
Measured == GetProbableHeight(root, NewArea(pageSize), [page_number |-> NextPage])

C15_MeasureLeavesState ==
    /\ Measured.el = root
    /\ GetProbableHeight(Measured.el, NewArea(pageSize), [page_number |-> NextPage]).h
          = Measured.h

\* a render call has measured a paragraph and has not rendered it: the
\* paragraph holds its text, its queue is empty, its flag is set
C15_Witness ==
    /\ phase = "render"
    /\ \E i \in 1..Len(Tree(root)) :
          /\ Tree(root)[i].kind = "Paragraph"
          /\ Tree(root)[i].style_applied
          /\ Tree(root)[i].text # <<>>
          /\ Tree(root)[i].words = <<>>

----------------------------------------------------------------------------
(* C16: for an element whose content fits in the area, the height
   get_probable_height returns is at least the height render reports for
   the same area: the first render call of a LinearLayout or of a
   TableLayout, over the children of the catalog, that returns
   has_more = false and a height the area holds reports no more than what
   was measured before it. *)

MeasureCoversRender ==
    (/\ phase = "build" /\ calls' # calls
     /\ res'.err = "" /\ ~res'.has_more /\ res'.size.height <= pageSize.height) =>
        GetProbableHeight(root, NewArea(pageSize), [page_number |-> 1]).h >= res'.size.height

C16_MeasureNotBelowRender == [][MeasureCoversRender]_vars

\* a frame is drawn whole in the first call of a root that fits into the page
C16_Witness ==
    /\ phase = "done" /\ page = 1
    /\ \E i \in CallsOf(log, "Framed") :
          /\ log[i].idx = 1
          /\ Completed(log[RetOf(log, i)])
          /\ \E k \in ChildRets(log, i) : log[RetOf(log, i)].h > log[k].h
    /\ res.size.height <= pageSize.height

----------------------------------------------------------------------------
(* C17: every render call of a LinearLayout, a PaddedElement, a
   FramedElement, a BulletPoint, a Break or a TableLayout that returns
   has_more = false reports a height that is at most the height of the
   area of the call. *)

Containers == {"Linear", "Padded", "Framed", "Bullet", "Break", "Table"}

\* the call logged at i returned has_more = false and a height above its area
Overshoots(ev, i) ==
    /\ ev[i].op = "call"
    /\ Completed(ev[RetOf(ev, i)])
    /\ ev[RetOf(ev, i)].h > ev[i].h

C17_HeightWithinArea ==
    \A i \in 1..Len(log) : log[i].kind \in Containers => ~Overshoots(log, i)

\* a PaddedElement whose element fits its area exactly reports the padding on top of it
C17_Witness ==
    \E i \in CallsOf(log, "Padded") :
        /\ Overshoots(log, i)
        /\ \E k \in ChildCalls(log, i) : ~Overshoots(log, k)

----------------------------------------------------------------------------
(* C18: a render call of a Paragraph in which the wrapper reports an
   overflow (a token wider than the width of the area) returns the error
   PageSizeExceeded, and takes no word off the queue of the paragraph; a
   paragraph that holds such a token never returns has_more = false
   without the error, and the error has no other cause. *)

\* the queue as the call starts to wrap it, and the width it wraps to
QueueAtCall == FillWords(ApplyStyle(root), [page_number |-> NextPage]).words

WidthAtCall == AddOptMargins(NewArea(pageSize), root.margins).w

OverflowLaw ==
    (calls' # calls /\ root.kind = "Paragraph") =>
        /\ res'.err = "PageSizeExceeded" => root'.words = QueueAtCall
        /\ Wrapper(QueueAtCall, WidthAtCall).overflow =>
              (res'.err = "PageSizeExceeded" \/ res'.has_more)
        /\ res'.err # "" =>
              (res'.err = "PageSizeExceeded" /\ Wrapper(QueueAtCall, WidthAtCall).overflow)

----------------------------------------------------------------------------
(* C19: a line of width w that a Paragraph renders into an area of width W,
   w <= W, starts at the x offset 0 when the paragraph is aligned Left, at
   (W - w) / 2 when Center, at W - w when Right.  The offset is taken from
   the left edge of the area inside the margins of the paragraph; the widths
   of ParaSpec make W - w even. *)

\* the words printed at height y, in the order of the printing
LineAt(ev, y) == SelectSeq(ev, LAMBDA e : e.op = "text" /\ e.h = y)

RECURSIVE PrintedWidth(_)
PrintedWidth(line) ==
    IF line = <<>> THEN 0 ELSE StrWidth(Head(line).s) + PrintedWidth(Tail(line))

LineAligned(line, alignment, left, W) ==
    LET w == PrintedWidth(line)
        x == line[1].w - left
    IN w <= W =>
          CASE alignment = "Left" -> x = 0
            [] alignment = "Center" -> 2 * x = W - w
            [] alignment = "Right" -> x = W - w

C19_AlignmentOffsets ==
    root.kind = "Paragraph" =>
        \A y \in {log[k].h : k \in {j \in 1..Len(log) : log[j].op = "text"}} :
            LineAligned(LineAt(log, y), root.alignment,
                        AddOptMargins(NewArea(pageSize), root.margins).x, WidthAtCall)

\* on a later page a centred paragraph with margins prints a line of two
\* words that is narrower than the area
C19_Witness ==
    /\ root.kind = "Paragraph" /\ root.alignment = "Center" /\ IsSome(root.margins)
    /\ page >= 2
    /\ \E k \in 1..Len(log) :
          /\ log[k].op = "text"
          /\ Len(LineAt(log, log[k].h)) = 2
          /\ PrintedWidth(LineAt(log, log[k].h)) < WidthAtCall

----------------------------------------------------------------------------
(* C20: a list pushed as a sub-list, through UnorderedList::push_list or
   through OrderedList::push_list, is wrapped in a BulletPoint with an
   empty bullet and with half the indent BulletPoint::new gives (5 for 10). *)

\* the BulletPoint the push_list of this step appended
Appended == Last(root'.layout.elements)

SubListPoint ==
    \A sub \in SubLists :
        (ListPushListAct(sub) \/ PushListAct(sub)) =>
            /\ Len(root'.layout.elements) = Len(root.layout.elements) + 1
            /\ Appended.kind = "Bullet" /\ IsList(Appended.element)
            /\ Appended.bullet = <<>>
            /\ 2 * Appended.indent = NewBulletPoint(sub).indent
            /\ Appended.indent = 5

C20_SubListIndent == [][SubListPoint]_vars

\* an ordered list holds a sub-list under an empty bullet with the indent 10
C20_Witness ==
    /\ root.kind = "OList" /\ pushed = "push_list"
    /\ Last(root.layout.elements).bullet = <<>>
    /\ IsList(Last(root.layout.elements).element)
    /\ Last(root.layout.elements).indent = 10

----------------------------------------------------------------------------
(* C21: a TableLayout invokes its header row callback and renders a header
   row in a render call exactly when has_header_row_callback is set (and a
   callback is registered): while the flag is false no header is rendered,
   whether or not a callback has been registered. *)

\* the table called at i invokes its header row callback in that call
HeaderInvoked(ev, i) ==
    \E k \in (i + 1)..(RetOf(ev, i) - 1) : ev[k].op = "header_cb" /\ ev[k].path = ev[i].path

\* the table called at i renders the element of its header row in that call
HeaderRowRendered(ev, i) ==
    \E k \in (i + 1)..(RetOf(ev, i) - 1) :
        ev[k].op = "call" /\ ev[k].path = Append(ev[i].path, 0)

C21_HeaderFollowsFlag ==
    (root.kind = "Table" /\ log # <<>>) =>
        /\ HeaderInvoked(log, 1) <=>
              (root.has_header_row_callback /\ IsSome(root.header_row_callback_fn))
        /\ HeaderRowRendered(log, 1) => root.has_header_row_callback

\* a table whose flag is false has invoked its callback and rendered the header row
C21_Witness ==
    /\ root.kind = "Table" /\ log # <<>>
    /\ ~root.has_header_row_callback
    /\ IsSome(root.header_row_callback_fn)
    /\ HeaderInvoked(log, 1)
    /\ HeaderRowRendered(log, 1)
    /\ \E k \in 1..Len(log) : log[k].op = "row" /\ Completed(log[k])

----------------------------------------------------------------------------
(* C22: the header row callback of a TableLayout is invoked exactly once per
   page for that table, counting the invocations of its render and of its
   get_probable_height on that page, for the table at the top and for a
   table in a cell of a table alike.  The log is the log of one page. *)

\* the invocations, on this page, of the callback of the table at path q
CallbackCalls(ev, q) ==
    {k \in 1..Len(ev) : ev[k].op \in {"header_cb", "measure_cb"} /\ ev[k].path = q}

C22_HeaderOncePerPage ==
    \A k \in 1..Len(log) :
        log[k].op \in {"header_cb", "measure_cb"} =>
            Cardinality(CallbackCalls(log, log[k].path)) = 1

\* on one page the table at the top has invoked its callback once, and the
\* table in one of its cells has been measured and rendered
C22_Witness ==
    /\ root.kind = "Table" /\ log # <<>>
    /\ Cardinality(CallbackCalls(log, <<>>)) = 1
    /\ \E i \in CallsOf(log, "Table") :
          /\ Len(log[i].path) = 2
          /\ Completed(log[RetOf(log, i)])
          /\ \E k, h \in CallbackCalls(log, log[i].path) :
                log[k].op = "measure_cb" /\ log[h].op = "header_cb" /\ k < i /\ i < h

----------------------------------------------------------------------------
(* C23: if the probable height of the header element exceeds the height of
   the area the table has for it, TableLayout.render returns has_more = true
   with a reported height of 0, renders neither the header nor a data row
   and leaves render_idx unchanged, with and without table margins. *)

\* the area of table t in the page body, within its margins
TableArea(t) == AddOptMargins(NewArea(pageSize), t.margins)

\* on page p the header element of table t is higher than the area of t
HeaderTooTall(t, p) ==
    /\ t.kind = "Table"
    /\ IsSome(t.header_row_callback_fn)
    /\ HeaderCallback(Unwrap(t.header_row_callback_fn), p).err = ""
    /\ GetProbableHeight(HeaderCallback(Unwrap(t.header_row_callback_fn), p).el,
                         TableArea(t), [page_number |-> p]).h > TableArea(t).h

\* the call of the log has rendered neither a header row nor a data row
NothingRendered(ev) ==
    \A k \in 2..Len(ev) : ev[k].op \notin {"call", "ret", "row", "text", "decorate", "fill"}
                          \/ (ev[k].op = "ret" /\ ev[k].path = <<>>)

HeaderTooTallLaw ==
    (calls' # calls /\ HeaderTooTall(root, page')) =>
        /\ res'.err = "" /\ res'.has_more
        /\ res'.size.height = 0
        /\ NothingRendered(log')
        /\ root'.render_idx = root.render_idx

C23_HeaderTooTall == [][HeaderTooTallLaw]_vars

\* a table with margins and a row has returned from a call whose area was
\* too low for its header element
C23_Witness ==
    /\ HeaderTooTall(root, page) /\ log # <<>>
    /\ IsSome(root.margins)
    /\ Len(root.rows) >= 1
    /\ res.has_more /\ res.err = ""
    /\ NothingRendered(log)
    /\ root.render_idx = 0

----------------------------------------------------------------------------
(* C24: if the render of a child returns an error, LinearLayout.render and
   TableLayout.render return that same error and do not move render_idx on
   from the child (the row) that failed; an error of the header row callback
   is returned by TableLayout.render before any row is rendered. *)

\* the render of a child of the layout called at i fails: the layout returns
\* right away, with that error and with render_idx at that child
LinearErrorObeys(ev, i) ==
    \A k \in ChildRets(ev, i) :
        ev[k].err # "" =>
            /\ RetOf(ev, i) = k + 1
            /\ ev[k + 1].err = ev[k].err
            /\ ev[k + 1].idx = Last(ev[k].path) - 1

\* the returns of the header element and of the cells of the table called at i
TableChildRets(ev, i) ==
    {k \in (i + 1)..(RetOf(ev, i) - 1) :
        /\ ev[k].op = "ret" /\ IsPrefix(ev[i].path, ev[k].path)
        /\ \/ ev[k].path = Append(ev[i].path, 0)
           \/ Len(ev[k].path) = Len(ev[i].path) + 2 /\ ev[k].path[Len(ev[i].path) + 1] >= 1}

TableErrorObeys(ev, i) ==
    LET q == ev[i].path
        r == ev[RetOf(ev, i)]
    IN /\ \A k \in TableChildRets(ev, i) :
            ev[k].err # "" =>
                /\ r.err = ev[k].err
                /\ r.idx = (IF Last(ev[k].path) = 0 /\ Len(ev[k].path) = Len(q) + 1
                            THEN ev[i].idx ELSE ev[k].path[Len(q) + 1] - 1)
                /\ \A j \in (k + 1)..(RetOf(ev, i) - 1) : ev[j].op = "row" /\ ev[j].path = q
       /\ (ev[i].s # <<>> /\ HeaderCallback(Unwrap(ev[i].s), page).err # "") =>
            /\ r.err = HeaderCallback(Unwrap(ev[i].s), page).err
            /\ r.idx = ev[i].idx
            /\ \A j \in (i + 1)..(RetOf(ev, i) - 1) : ev[j].op \in {"set_table_size", "header_cb"}

C24_ErrorsPropagate ==
    /\ \A i \in CallsOf(log, "Linear") : LinearErrorObeys(log, i)
    /\ \A i \in CallsOf(log, "Table") : TableErrorObeys(log, i)

\* a layout has completed a child and returned the error of the next one
C24_Witness ==
    /\ phase = "failed"
    /\ \E i \in CallsOf(log, "Linear") :
          /\ \E k \in ChildRets(log, i) : log[k].err # ""
          /\ \E k \in ChildRets(log, i) : Completed(log[k])
          /\ log[RetOf(log, i)].err # "" /\ log[RetOf(log, i)].idx >= 1

----------------------------------------------------------------------------
(* C25: a Renderer always has at least one page: new creates exactly one
   page, every add_page adds exactly one page behind the others and no
   operation removes a page, so page_count() is 1 plus the number of
   add_page calls, and first_page and last_page are always defined. *)

AddPageCalls == {k \in 1..Len(log) : log[k].op = "add_page"}

\* a step never takes a page away, and add_page appends the page of its size
PagesOnlyGrow ==
    /\ IsPrefix(root.pages, root'.pages) \/ Len(root'.pages) = Len(root.pages)
    /\ \A size \in PaperSizes :
          AddPageAct(size) => root'.pages = Append(root.pages, NewPage(size))

C25_AtLeastOnePage ==
    /\ [](/\ PageCount(root) >= 1
          /\ PageCount(root) = 1 + Cardinality(AddPageCalls)
          /\ IsSome(GetPage(root, FirstPageIdx(root)))
          /\ IsSome(GetPage(root, LastPageIdx(root))))
    /\ [][PagesOnlyGrow]_vars

\* pages have been added, and a layer to a page, and all the pages are there
C25_Witness ==
    /\ root.kind = "Renderer"
    /\ PageCount(root) = 3
    /\ Cardinality(AddPageCalls) = 2
    /\ Unwrap(GetPage(root, FirstPageIdx(root))).layers = 2
    /\ Unwrap(GetPage(root, LastPageIdx(root))).size # Unwrap(GetPage(root, FirstPageIdx(root))).size

----------------------------------------------------------------------------
(* C26: set_table_size of the cell decorator is called once for a table,
   exactly one call over the whole rendering of the table however many
   pages it spans, and that call precedes the first call of prepare_cell or
   decorate_cell.  The table at the top is rendered once per page, so a
   call on a later page is a call after the first. *)

SizeCalls(ev, q) == {k \in 1..Len(ev) : ev[k].op = "set_table_size" /\ ev[k].path = q}

\* the cells of the table at q that the decorator has decorated
DecorateCalls(ev, q) ==
    {k \in 1..Len(ev) : ev[k].op = "decorate" /\ Len(ev[k].path) = Len(q) + 2
                        /\ IsPrefix(q, ev[k].path)}

C26_SetTableSizeOnce ==
    (root.kind = "Table" /\ log # <<>>) =>
        /\ Cardinality(SizeCalls(log, <<>>)) = (IF page = 1 THEN 1 ELSE 0)
        /\ \A d \in DecorateCalls(log, <<>>) :
              page = 1 => \E k \in SizeCalls(log, <<>>) : k < d

\* on its second page a table is told its size again, then decorates a row
C26_Witness ==
    /\ root.kind = "Table" /\ page = 2
    /\ Cardinality(SizeCalls(log, <<>>)) = 1
    /\ \E d \in DecorateCalls(log, <<>>) :
          /\ log[d].path[1] = 2
          /\ \E k \in SizeCalls(log, <<>>) : k < d

----------------------------------------------------------------------------
(* C27: Area.split_horizontally returns one sub-area per column, in the
   order of the columns, each with the height and the y origin of the area;
   sub-area i starts at the origin.x of the area plus the widths of the
   sub-areas before it; for Weights width_i = width * w_i / sum(w), so that
   the widths add up to the width of the area; for PixelWidths
   width_i = px_i. *)

RECURSIVE SumWidths(_, _)
SumWidths(areas, n) == IF n = 0 THEN 0 ELSE areas[n].w + SumWidths(areas, n - 1)

SplitObeys(area, columns, areas) ==
    /\ Len(areas) = Len(columns.v)
    /\ \A i \in 1..Len(areas) :
          /\ areas[i].h = area.h /\ areas[i].y = area.y
          /\ areas[i].x = area.x + SumWidths(areas, i - 1)
          /\ columns.kind = "Weights" =>
                areas[i].w * SumSeq(columns.v) = area.w * columns.v[i]
          /\ columns.kind = "PixelWidths" => areas[i].w = columns.v[i]
    /\ (columns.kind = "Weights" /\ SumSeq(columns.v) > 0) =>
          SumWidths(areas, Len(areas)) = area.w

----------------------------------------------------------------------------
(* C28: after a Paragraph.render call the word queue holds exactly the
   suffix of the text that has not been drawn yet: the tokens the call has
   drawn, in the order of the drawing, followed by the queue it leaves are
   the queue it started from, so that across the continuation calls every
   token is drawn exactly once and in order; a call that draws no line
   leaves the queue unchanged. *)

\* the strings a call has drawn, in the order of the drawing
RECURSIVE Drawn(_)
Drawn(ev) ==
    IF ev = <<>> THEN <<>>
    ELSE (IF Head(ev).op = "text" THEN <<Head(ev).s>> ELSE <<>>) \o Drawn(Tail(ev))

\* the queue of paragraph p when its render for page n starts to wrap it
QueueAtStart(p, n) == FillWords(ApplyStyle(p), [page_number |-> n]).words

QueueLaw ==
    (calls' # calls /\ root.kind = "Paragraph" /\ res'.err = "") =>
        /\ QueueAtStart(root, page') = Drawn(log') \o root'.words
        /\ Drawn(log') = <<>> => root'.words = QueueAtStart(root, page')
        /\ res'.has_more => root'.words # <<>>
        /\ root'.text = <<>>

----------------------------------------------------------------------------
(* C29: every bullet of a list is drawn exactly once: the bullet of a
   BulletPoint is printed in the render call in which its child draws its
   first output, so that no BulletPoint finishes its child without its
   bullet printed.  The law reads two calls in a row, log and log': the
   child draws its first output in the call of log' when the bullet point
   is new to rendering there, or was new in the call of log and its child
   drew nothing in it. *)

\* what the child of the bullet point called at i has drawn in the call
ChildDraws(ev, i) ==
    {k \in (i + 1)..(RetOf(ev, i) - 1) :
        ev[k].op = "text" /\ IsPrefix(Append(ev[i].path, 1), ev[k].path)}

\* the call at i of ev is the first in which the child of the bullet point draws
FirstOutput(prev, ev, i) ==
    /\ ChildDraws(ev, i) # {}
    /\ \/ ev[i].idx = 0
       \/ \E j \in CallsOf(prev, "Bullet") :
             prev[j].path = ev[i].path /\ prev[j].idx = 0 /\ ChildDraws(prev, j) = {}

BulletComesWithChild ==
    calls' # calls =>
        \A i \in CallsOf(log', "Bullet") :
            FirstOutput(log, log', i) => OwnPrints(log', i) # {}

C29_BulletWithFirstOutput == [][BulletComesWithChild]_vars

\* on the second page the paragraph of an item is drawn whole, from its first
\* token, by a bullet point that prints no bullet and completes
C29_Witness ==
    /\ page = 2
    /\ \E i \in CallsOf(log, "Bullet") :
          /\ log[i].idx = 1
          /\ OwnPrints(log, i) = {}
          /\ Completed(log[RetOf(log, i)])
          /\ log[i + 1].op = "call" /\ log[i + 1].kind = "Paragraph"
          /\ log[i + 1].n = 0 /\ log[i + 1].idx = 1
          /\ ChildDraws(log, i) # {}

----------------------------------------------------------------------------
(* C30: when TableLayout draws a row with a FrameCellDecorator, a row that is
   rendered for the first time gets a top border iff it is row 0 and outer
   is set, or a later row and inner is set; a row that completes on this
   page gets a bottom border iff it is the last row and outer is set.  In
   the call of a page the rows after the one the call starts at are
   rendered for the first time, and on the first page all rows are. *)

\* the row of the cell decorated at k, counted from 0
RowOf(ev, k) == ev[k].path[Len(ev[k].path) - 1] - 1

\* the row of the cell decorated at k has completed in the call
RowCompleted(ev, k) ==
    \E j \in (k + 1)..Len(ev) :
        /\ ev[j].op = "row" /\ ev[j].path = SubSeq(ev[k].path, 1, Len(ev[k].path) - 2)
        /\ ev[j].idx = RowOf(ev, k) /\ Completed(ev[j])

BordersObey(t, ev, k) ==
    /\ (page = 1 \/ RowOf(ev, k) > ev[1].idx) =>
          (Has(ev[k].s, "top") <=>
              IF RowOf(ev, k) = 0 THEN t.draw_outer_borders ELSE t.draw_inner_borders)
    /\ RowCompleted(ev, k) =>
          (Has(ev[k].s, "bottom") <=>
              (RowOf(ev, k) + 1 = Len(t.rows) /\ t.draw_outer_borders))

C30_RowBorders ==
    (root.kind = "Table" /\ log # <<>>) =>
        \A k \in DecorateCalls(log, <<>>) : BordersObey(root, log, k)

\* a table with inner borders only has decorated its second row, rendered
\* for the first time and completed on this page, with a bottom border
C30_Witness ==
    /\ root.kind = "Table" /\ log # <<>>
    /\ root.draw_inner_borders /\ ~root.draw_outer_borders
    /\ Len(root.rows) = 2
    /\ \E k \in DecorateCalls(log, <<>>) :
          /\ RowOf(log, k) = 1 /\ RowOf(log, k) > log[1].idx
          /\ RowCompleted(log, k)
          /\ Has(log[k].s, "bottom") /\ ~Has(log[k].s, "top")

----------------------------------------------------------------------------
(* C31: FrameCellDecorator draws the left edge of a cell iff the cell is in
   column 0 and outer is set, or in a later column and inner is set, and the
   right edge iff the cell is in the last column and outer is set.  So the
   boundary between two adjacent cells is drawn at most once in a call: by
   the left edge of the cell on its right, never by the right edge of the
   cell on its left, and no cell is decorated twice. *)

\* the column of the cell decorated at k, counted from 0
ColOf(ev, k) == Last(ev[k].path) - 1

\* the tables of a call whose decorator is known: the root and the table
\* its header row callback returns
DecoratedTables ==
    {[q |-> <<>>, t |-> root]}
    \cup (IF IsSome(root.header_row_callback_fn)
             /\ Unwrap(root.header_row_callback_fn) = "table"
          THEN {[q |-> <<0>>, t |-> HeaderCallback("table", page).el]} ELSE {})

VerticalEdgesObey(t, ev, k) ==
    LET dec == Unwrap(t.cell_decorator)
        column == ColOf(ev, k)
    IN /\ Has(ev[k].s, "left") <=> IF column = 0 THEN dec.outer ELSE dec.inner
       /\ Has(ev[k].s, "right") <=> (column + 1 = Len(t.column_weights) /\ dec.outer)
       /\ column + 1 < Len(t.column_weights) => ~Has(ev[k].s, "right")
       /\ \A j \in 1..Len(ev[k].s) : \A i \in 1..Len(ev[k].s) :
             (ev[k].s[i] = ev[k].s[j] /\ ev[k].s[j] \in {"left", "right"}) => i = j

C31_VerticalEdges ==
    (root.kind = "Table" /\ log # <<>>) =>
        \A d \in DecoratedTables :
            /\ \A k \in DecorateCalls(log, d.q) : VerticalEdgesObey(d.t, log, k)
            /\ \A k \in DecorateCalls(log, d.q) : \A j \in DecorateCalls(log, d.q) :
                  log[k].path = log[j].path => k = j

\* a table with inner borders only has decorated a row: the cell in column 1
\* draws its left edge, the cell in column 0 draws neither vertical edge
C31_Witness ==
    /\ root.kind = "Table" /\ log # <<>>
    /\ root.cell_decorator # None
    /\ Unwrap(root.cell_decorator).inner /\ ~Unwrap(root.cell_decorator).outer
    /\ \E k \in DecorateCalls(log, <<>>) : \E j \in DecorateCalls(log, <<>>) :
          /\ RowOf(log, k) = RowOf(log, j)
          /\ ColOf(log, k) = 0 /\ ColOf(log, j) = 1
          /\ ~Has(log[k].s, "left") /\ ~Has(log[k].s, "right")
          /\ Has(log[j].s, "left") /\ ~Has(log[j].s, "right")

----------------------------------------------------------------------------
(* C32: for every cell of a table rendered with a FrameCellDecorator, the
   sides on which prepare_cell insets the area of the cell by the line
   thickness are exactly the sides on which decorate_cell draws a border of
   that cell in the same render of the row. *)

\* the decorator of table t as prepare_cell finds it for row row of a call:
\* the table size is set, last_row is the row decorated before
DecoratorAtRow(t, row) ==
    [SetTableSize(Unwrap(t.cell_decorator), Len(t.column_weights), Len(t.rows))
        EXCEPT !.last_row = IF row = t.render_idx THEN @ ELSE Some(row - 1)]

\* the sides on which area p lies inside area a
InsetSides(a, p) ==
    (IF p.y > a.y THEN {"top"} ELSE {})
    \cup (IF p.x + p.w < a.x + a.w THEN {"right"} ELSE {})
    \cup (IF p.y + p.h < a.y + a.h THEN {"bottom"} ELSE {})
    \cup (IF p.x > a.x THEN {"left"} ELSE {})

\* the sides prepare_cell insets for the cell (row, column) of table t
PreparedSides(t, row, column) ==
    InsetSides(SplitHorizontally(TableArea(t), t.column_weights)[column + 1],
               PrepareCell(DecoratorAtRow(t, row), column, row,
                           SplitHorizontally(TableArea(t), t.column_weights)[column + 1]))

InsetsMatchBorders ==
    (calls' # calls /\ root.kind = "Table") =>
        \A k \in DecorateCalls(log', <<>>) :
            PreparedSides(root, RowOf(log', k), ColOf(log', k))
                = {log'[k].s[j] : j \in 1..Len(log'[k].s)}

C32_InsetsMatchBorders == [][InsetsMatchBorders]_vars

\* a table with outer borders only and two rows has rendered its first row:
\* the area of the first cell is inset by the top border alone, and the cell
\* is drawn with a top and a bottom border
C32_Witness ==
    /\ root.kind = "Table" /\ page = 1 /\ root.margins = None
    /\ root.header_row_callback_fn = None
    /\ root.draw_outer_borders /\ ~root.draw_inner_borders
    /\ Len(root.rows) = 2
    /\ \E k \in DecorateCalls(log, <<>>) :
          /\ log[k].path = <<1, 1>>
          /\ Has(log[k].s, "top") /\ Has(log[k].s, "bottom")
          /\ \E j \in 1..Len(log) :
                /\ log[j].op = "call" /\ log[j].path = <<1, 1>>
                /\ log[j].h = pageSize.height - Thick

----------------------------------------------------------------------------
(* C33: a table whose FrameCellDecorator has inner = false and outer = false,
   the decorator TableLayout::new installs, draws no border line for any
   cell on any page. *)

\* table t holds the decorator of TableLayout::new
Borderless(t) ==
    /\ t.kind = "Table" /\ IsSome(t.cell_decorator)
    /\ ~Unwrap(t.cell_decorator).inner /\ ~Unwrap(t.cell_decorator).outer

\* the paths of the cells of the root
CellPaths == UNION {{<<r, c>> : c \in 1..Len(root.rows[r].cells)} : r \in 1..Len(root.rows)}

\* the paths of the borderless tables of a call: the root, a table in a cell
BorderlessPaths ==
    (IF Borderless(root) THEN {<<>>} ELSE {})
    \cup {q \in CellPaths : Borderless(root.rows[q[1]].cells[q[2]].element)}

C33_NoBordersWithoutFlags ==
    (root.kind = "Table" /\ log # <<>>) =>
        \A q \in BorderlessPaths : \A k \in DecorateCalls(log, q) : log[k].s = <<>>

\* on its second page a table without borders has decorated its second row
\* with a bottom line
C33_Witness ==
    /\ Borderless(root) /\ page = 2
    /\ \E k \in DecorateCalls(log, <<>>) :
          /\ RowOf(log, k) = 1
          /\ log[k].s = <<"bottom">>

----------------------------------------------------------------------------
(* C34: the height a table row reports is the maximum of the heights its
   cells' render calls report, raised to the explicit minimum height of the
   row when that is larger; it equals the probable height computed for the
   row before its cells are rendered; and the next row starts exactly that
   far below the top of the row. *)

\* the returns of the cells of row row of the table at q, up to event j
CellRets(ev, q, row, j) ==
    {k \in 1..j : ev[k].op = "ret" /\ Len(ev[k].path) = Len(q) + 2
                  /\ IsPrefix(Append(q, row + 1), ev[k].path)}

RECURSIVE MaxHeight(_, _)
MaxHeight(ev, ks) ==
    IF ks = {} THEN 0
    ELSE LET k == CHOOSE x \in ks : TRUE
         IN Max(ev[k].h, MaxHeight(ev, ks \ {k}))

\* the rows of the root that a call has rendered: row events that follow
\* returns of the cells
RenderedRows(ev) ==
    {j \in 1..Len(ev) : ev[j].op = "row" /\ ev[j].path = <<>> /\ ev[j].err = ""
                        /\ CellRets(ev, <<>>, ev[j].idx, j) # {}}

\* the height of the area render_row got for row row of table t: the area of
\* its first cell and what prepare_cell took from it
RowAreaHeight(t, ev, row) ==
    LET k == CHOOSE x \in 1..Len(ev) : ev[x].op = "call" /\ ev[x].path = <<row + 1, 1>>
    IN ev[k].h + Thick * Cardinality(PreparedSides(t, row, 0) \cap {"top", "bottom"})

RowHeightLaw ==
    (calls' # calls /\ root.kind = "Table") =>
        \A j \in RenderedRows(log') :
            /\ log'[j].h = WithRowHeight(root.rows[log'[j].idx + 1],
                                         MaxHeight(log', CellRets(log', <<>>, log'[j].idx, j)))
            /\ log'[j].h = log'[j].n
            /\ \A i \in RenderedRows(log') :
                  log'[i].idx = log'[j].idx + 1 =>
                      RowAreaHeight(root, log', log'[i].idx)
                          = RowAreaHeight(root, log', log'[j].idx) - log'[j].h

C34_RowHeight == [][RowHeightLaw]_vars

\* a row was measured at two lines, its cells were rendered into the area the
\* borders left, and the row reports one line and has_more
C34_Witness ==
    /\ root.kind = "Table" /\ log # <<>>
    /\ \E j \in RenderedRows(log) :
          /\ log[j].n = 2 * LineH
          /\ log[j].h = LineH
          /\ log[j].more

----------------------------------------------------------------------------
(* C38: on every layer text sections and shapes are properly sequenced: every
   begin_text_section is followed by exactly one end_text_section before the
   next begin_text_section, and no line and no filled shape is added to the
   layer while a text section is open, while a Paragraph or a BulletPoint is
   rendered, with or without underlined text. *)

\* the text sections open after the first k operations of a call
OpenSections(ev, k) ==
    Cardinality({j \in 1..k : ev[j].op = "begin_text_section"})
        - Cardinality({j \in 1..k : ev[j].op = "end_text_section"})

\* the operations that add a line or a filled shape to the layer
IsShape(e) == e.op \in {"underline", "frame", "decorate", "fill"}

C38_SectionsSequenced ==
    /\ \A k \in 0..Len(log) : OpenSections(log, k) \in {0, 1}
    /\ OpenSections(log, Len(log)) = 0
    /\ \A k \in 1..Len(log) : IsShape(log[k]) => OpenSections(log, k - 1) = 0

\* an underlined paragraph has written a word and has drawn the line under
\* it before the text section of the line is closed
C38_Witness ==
    /\ root.kind = "Paragraph" /\ root.underline
    /\ \E k \in 1..Len(log) :
          /\ k + 2 <= Len(log)
          /\ log[k].op = "begin_text_section"
          /\ log[k + 1].op = "text"
          /\ log[k + 2].op = "underline"
          /\ OpenSections(log, k + 1) = 1

----------------------------------------------------------------------------
(* C35: Area.text_section returns None exactly when the glyph height of the
   metrics exceeds the height the area has left below the given position,
   and this is the only way text signals overflow: Area.print_str then
   returns false and Text.render returns has_more = true with size zero;
   otherwise Text.render draws the string and returns has_more = false with
   the line height of the style, however wide the string is. *)

\* the events between the call logged at i and its return
Between(ev, i) == SubSeq(ev, i + 1, RetOf(ev, i) - 1)

\* the string of the Text that is the root or is wrapped by the root
TextOf(el) == IF el.kind = "Padded" THEN el.element.text ELSE el.text

TextCallObeys(ev, i, str) ==
    LET r == ev[RetOf(ev, i)]
        b == Between(ev, i)
    IN IF GlyphH > ev[i].h
       THEN b = <<>> /\ r.more /\ r.err = "" /\ r.w = 0 /\ r.h = 0
       ELSE /\ Len(b) = 3
            /\ b[1].op = "begin_text_section"
            /\ b[2].op = "text" /\ b[2].s = str
            /\ b[3].op = "end_text_section"
            /\ ~r.more /\ r.err = "" /\ r.w = StrWidth(str) /\ r.h = LineH

\* the text sections a Paragraph at the top of the page opens for its lines:
\* line k, at k line heights below the top, gets one iff the glyph height
\* fits in what is left there
SectionsObey(ev) ==
    LET n == Cardinality({k \in 1..Len(ev) : ev[k].op = "begin_text_section"})
    IN /\ \A k \in 0..(n - 1) : ~(GlyphH > pageSize.height - k * LineH)
       /\ (ev[Len(ev)].more /\ ev[Len(ev)].err = "") => GlyphH > pageSize.height - n * LineH

C35_TextOverflow ==
    log # <<>> =>
        /\ \A i \in CallsOf(log, "Text") : TextCallObeys(log, i, TextOf(root))
        /\ root.kind = "Paragraph" => SectionsObey(log)

\* a padded Text on a page that holds a glyph: the top padding leaves less
\* than a glyph, no section is opened and the Text returns has_more with
\* size zero
C35_Witness ==
    /\ root.kind = "Padded" /\ root.element.kind = "Text"
    /\ log # <<>> /\ pageSize.height >= GlyphH
    /\ \E i \in CallsOf(log, "Text") :
          /\ GlyphH > log[i].h
          /\ Between(log, i) = <<>>
          /\ log[RetOf(log, i)].more /\ log[RetOf(log, i)].h = 0

----------------------------------------------------------------------------
(* C36: PaddedElement.render passes its child an area inset by the top, the
   left and the right padding but not by the bottom padding, renders the
   child exactly once per call, and reports the child's width plus left +
   right and the child's height plus top + bottom, passing the child's
   has_more through unchanged. *)

\* the call of a PaddedElement with padding p logged at i: at (x, y) of the page
PaddedCallObeys(ev, i, p, x, y) ==
    LET r == ev[RetOf(ev, i)]
    IN /\ Cardinality(ChildCalls(ev, i)) = 1
       /\ Cardinality(ChildRets(ev, i)) = 1
       /\ \A k \in ChildCalls(ev, i) :
             /\ k = i + 1
             /\ ev[k].path = Append(ev[i].path, 1)
             /\ ev[k].w = ev[i].w - (p.left + p.right)
             /\ ev[k].h = ev[i].h - p.top
       /\ \A k \in ChildRets(ev, i) :
             /\ k = RetOf(ev, i) - 1
             /\ r.err = ev[k].err
             /\ ev[k].err = "" =>
                   /\ r.w = ev[k].w + p.left + p.right
                   /\ r.h = ev[k].h + p.top + p.bottom
                   /\ r.more = ev[k].more
       /\ \A k \in (i + 1)..(RetOf(ev, i) - 1) :
             (ev[k].op = "text" /\ \A j \in (i + 1)..(k - 1) : ev[j].op # "text") =>
                 ev[k].w = x + p.left /\ ev[k].h = y + p.top

C36_PaddedElement ==
    (root.kind = "Padded" /\ log # <<>>) => PaddedCallObeys(log, 1, root.padding, 0, 0)

\* a padded paragraph with a bottom padding of 3 got all of the page below
\* its top padding, has drawn its first line and returns has_more
C36_Witness ==
    /\ root.kind = "Padded" /\ log # <<>>
    /\ root.padding.bottom = 3 /\ root.padding.top = 2
    /\ log[2].op = "call" /\ log[2].kind = "Paragraph"
    /\ log[2].h = pageSize.height - 2
    /\ res.has_more /\ res.err = ""
    /\ res.size.height = LineH + 5
    /\ \E k \in 1..Len(log) : log[k].op = "text" /\ log[k].w = 1 /\ log[k].h = 2

----------------------------------------------------------------------------
(* C37: Area.add_offset(dx, dy) moves the origin by (dx, dy) and shrinks the
   width and the height by the same amounts, so the bottom-right corner of
   the area (origin + size) is unchanged by any sequence of add_offset calls;
   add_margins moves the origin by (left, top) and shrinks the size by
   (left + right, top + bottom), and margin_top accumulates the top margins
   added. *)

\* what a call of the log adds
OffsetX(e) == IF e.op = "add_offset" THEN e.w ELSE 0
OffsetY(e) == IF e.op = "add_offset" THEN e.h ELSE 0
MarginOf(e) == IF e.op = "add_margins" THEN e.s[1] ELSE Trbl(0, 0, 0, 0)
MarginTop(e) == MarginOf(e).top
MarginRight(e) == MarginOf(e).right
MarginBottom(e) == MarginOf(e).bottom
MarginLeft(e) == MarginOf(e).left

\* the bottom-right corner of an area
Corner(a) == <<a.x + a.w, a.y + a.h>>

\* the area is the starting area moved and shrunk by all the calls made on it
AreaAddsUp ==
    LET a == root.area
        s == root.start
        Sum(F(_)) == SumSeq([k \in 1..Len(log) |-> F(log[k])])
    IN /\ a.x = s.x + Sum(OffsetX) + Sum(MarginLeft)
       /\ a.y = s.y + Sum(OffsetY) + Sum(MarginTop)
       /\ a.w = s.w - Sum(OffsetX) - (Sum(MarginLeft) + Sum(MarginRight))
       /\ a.h = s.h - Sum(OffsetY) - (Sum(MarginTop) + Sum(MarginBottom))
       /\ a.margin_top = s.margin_top + Sum(MarginTop)
       /\ (\A k \in 1..Len(log) : log[k].op = "add_offset") => Corner(a) = Corner(s)

\* what one call does to the area
AreaStepObeys ==
    LET a == root.area
        b == root'.area
        e == log'[Len(log')]
    IN /\ e.op = "add_offset" =>
             /\ b.x = a.x + e.w /\ b.y = a.y + e.h
             /\ b.w = a.w - e.w /\ b.h = a.h - e.h
             /\ b.margin_top = a.margin_top
             /\ Corner(b) = Corner(a)
       /\ e.op = "add_margins" =>
             /\ b.x = a.x + e.s[1].left /\ b.y = a.y + e.s[1].top
             /\ b.w = a.w - (e.s[1].left + e.s[1].right)
             /\ b.h = a.h - (e.s[1].top + e.s[1].bottom)
             /\ b.margin_top = a.margin_top + e.s[1].top

C37_AreaOffsets == []AreaAddsUp /\ [][AreaStepObeys]_vars

\* three offsets, two of them not zero, have moved the origin of an area that
\* did not start at the origin of the page, and the corner is where it was
C37_Witness ==
    /\ Len(log) = 3
    /\ \A k \in 1..3 : log[k].op = "add_offset"
    /\ root.start.x = 5 /\ root.start.y = 3
    /\ root.area.x = 9 /\ root.area.y = 5
    /\ Corner(root.area) = Corner(root.start)

====
